---------------------------- MODULE Spec2Model ----------------------------
(***************************************************************************)
(* Command dispatch, permission resolution and subscriber persistence of   *)
(* the announcer bot.                                                      *)
(*                                                                         *)
(* A message text is a sequence of tokens.  A token is a piece of text     *)
(* that no trigger of the program splits ("sub", "scribe", "un", " ", the  *)
(* prefix characters, the mention tag); a regular expression is matched    *)
(* token by token the way the JavaScript engine matches it character by    *)
(* character: alternatives in order, greedy quantifiers longest first,     *)
(* backtracking, and an unanchored search over the start positions.        *)
(***************************************************************************)
EXTENDS Integers, Sequences, FiniteSets, TLC

(***************************************************************************)
(* Bounds of the model.                                                    *)
(***************************************************************************)
\* Channels (chats) per client: ids 1..NumChannels.
NumChannels == 2
\* Individual users: ids 1..NumUsers.
NumUsers == 2

ChannelIds == 1..NumChannels
UserIds == 1..NumUsers

(***************************************************************************)
(* Regular expressions.  A source is a sequence of alternatives (the       *)
(* pieces between top-level "|"), an alternative a sequence of nodes.      *)
(* Concatenating two source strings joins the last alternative of the      *)
(* first with the first alternative of the second, which is what the       *)
(* string concatenation in getRegExp does.                                 *)
(***************************************************************************)
Lit(s) == [t |-> "lit", s |-> s]
AnyTok == [t |-> "any"]
Ws == [t |-> "ws"]
Bol == [t |-> "bol"]
Eol == [t |-> "eol"]
Grp(src) == [t |-> "grp", src |-> src]
Cap(name, src) == [t |-> "cap", name |-> name, src |-> src]
Star(n) == [t |-> "star", n |-> n]
LazyStar(n) == [t |-> "lazy", n |-> n]
Opt(n) == [t |-> "opt", n |-> n]

\* A source made of one alternative.
One(nodes) == <<nodes>>

\* The source of the string s1 + s2.
Concat(s1, s2) ==
  IF Len(s1) = 0 THEN s2
  ELSE IF Len(s2) = 0 THEN s1
  ELSE SubSeq(s1, 1, Len(s1) - 1) \o <<s1[Len(s1)] \o s2[1]>> \o SubSeq(s2, 2, Len(s2))

\* The value of a capture group that took no part in the match (undefined).
Undefined == <<"<undefined>">>

\* The named capture groups of the triggers, none of them set.
CapNames == {"alias", "newPrefix", "msg", "group"}
NoCaps == [n \in CapNames |-> Undefined]

\* A position of the matcher: p tokens consumed, c the named captures so far.
RECURSIVE Ends(_, _, _)
RECURSIVE FromEach(_, _, _, _)
RECURSIVE SeqEnds(_, _, _, _)
RECURSIVE AltEnds(_, _, _, _)
RECURSIVE StarFrom(_, _, _, _)
RECURSIVE LazyFrom(_, _, _, _)

\* The matcher's continuations of node n from every position of starts, in order.
FromEach(n, txt, starts, k) ==
  IF k > Len(starts) THEN <<>>
  ELSE Ends(n, txt, starts[k]) \o FromEach(n, txt, starts, k + 1)

\* The positions after nodes[k..] matched in sequence from the positions starts.
SeqEnds(nodes, k, txt, starts) ==
  IF k > Len(nodes) THEN starts
  ELSE SeqEnds(nodes, k + 1, txt, FromEach(nodes[k], txt, starts, 1))

\* The positions after one of the alternatives src[k..] matched from st.
AltEnds(src, k, txt, st) ==
  IF k > Len(src) THEN <<>>
  ELSE SeqEnds(src[k], 1, txt, <<st>>) \o AltEnds(src, k + 1, txt, st)

\* Greedy repetition: the longer matches come first.
StarFrom(n, txt, starts, k) ==
  IF k > Len(starts) THEN <<>>
  ELSE Ends(Star(n), txt, starts[k]) \o StarFrom(n, txt, starts, k + 1)

\* Lazy repetition: the shorter matches come first.
LazyFrom(n, txt, starts, k) ==
  IF k > Len(starts) THEN <<>>
  ELSE Ends(LazyStar(n), txt, starts[k]) \o LazyFrom(n, txt, starts, k + 1)

\* The positions the matcher reaches after node n from position st, in the
\* order backtracking tries them.
Ends(n, txt, st) ==
  CASE n.t = "lit" ->
         IF /\ st.p + Len(n.s) <= Len(txt)
            /\ SubSeq(txt, st.p + 1, st.p + Len(n.s)) = n.s
         THEN <<[st EXCEPT !.p = st.p + Len(n.s)]>>
         ELSE <<>>
    [] n.t = "any" ->
         IF st.p < Len(txt) THEN <<[st EXCEPT !.p = st.p + 1]>> ELSE <<>>
    [] n.t = "ws" ->
         IF st.p < Len(txt) /\ txt[st.p + 1] = " "
         THEN <<[st EXCEPT !.p = st.p + 1]>>
         ELSE <<>>
    [] n.t = "bol" -> IF st.p = 0 THEN <<st>> ELSE <<>>
    [] n.t = "eol" -> IF st.p = Len(txt) THEN <<st>> ELSE <<>>
    [] n.t = "grp" -> AltEnds(n.src, 1, txt, st)
    [] n.t = "cap" ->
         LET inner == AltEnds(n.src, 1, txt, st)
         IN  [i \in 1..Len(inner) |->
                [p |-> inner[i].p,
                 c |-> [inner[i].c EXCEPT ![n.name] = SubSeq(txt, st.p + 1, inner[i].p)]]]
    [] n.t = "opt" -> Ends(n.n, txt, st) \o <<st>>
    [] n.t = "star" ->
         LET once == SelectSeq(Ends(n.n, txt, st), LAMBDA e : e.p > st.p)
         IN  StarFrom(n.n, txt, once, 1) \o <<st>>
    [] n.t = "lazy" ->
         LET once == SelectSeq(Ends(n.n, txt, st), LAMBDA e : e.p > st.p)
         IN  <<st>> \o LazyFrom(n.n, txt, once, 1)

\* RegExp.exec: the first start position from which the source matches, and
\* the first match from it.  matched = FALSE is the null result.
RECURSIVE ExecFrom(_, _, _)
ExecFrom(src, txt, s) ==
  IF s > Len(txt) THEN [matched |-> FALSE, c |-> NoCaps]
  ELSE LET ends == AltEnds(src, 1, txt, [p |-> s, c |-> NoCaps])
       IN  IF Len(ends) > 0
           THEN [matched |-> TRUE, c |-> ends[1].c]
           ELSE ExecFrom(src, txt, s + 1)

Exec(src, txt) == ExecFrom(src, txt, 0)

\* String.prototype.trim on a token sequence.
RECURSIVE TrimLeft(_)
TrimLeft(s) == IF Len(s) > 0 /\ s[1] = " " THEN TrimLeft(Tail(s)) ELSE s
RECURSIVE TrimRight(_)
TrimRight(s) ==
  IF Len(s) > 0 /\ s[Len(s)] = " " THEN TrimRight(SubSeq(s, 1, Len(s) - 1)) ELSE s
Trim(s) == TrimRight(TrimLeft(s))

(***************************************************************************)
(* The bots, the roles and the registered commands.                        *)
(***************************************************************************)
Clients == {"telegram", "discord"}

\* The default prefix of each bot.
BotPrefix == [telegram |-> <<"/">>, discord |-> <<"!">>]

\* getUserTag: "@" followed by the bot's user name.
UserTag == <<"@bot">>

\* The id given to the author of a channel post, which has none.
channelAuthorID == 0 - 322

Roles == {"USER", "ADMIN", "OWNER"}

\* The position of a role in USER < ADMIN < OWNER.
RoleOrd == [USER |-> 0, ADMIN |-> 1, OWNER |-> 2]

\* The games of the catalog, in the order of the configuration.
games ==
  << [name |-> "dota", aliases |-> {<<"dota">>}],
     [name |-> "artifact", aliases |-> {<<"artifact">>}] >>

GameNames == {games[i].name : i \in 1..Len(games)}

\* game.hasAlias(alias)
hasAlias(game, alias) == alias \in game.aliases

\* getGameName(alias): the name of the last game that has the alias, the
\* empty name when none has.
RECURSIVE getGameNameFrom(_, _, _)
getGameNameFrom(k, alias, gameName) ==
  IF k > Len(games) THEN gameName
  ELSE getGameNameFrom(k + 1, alias,
         IF hasAlias(games[k], alias) THEN games[k].name ELSE gameName)

getGameName(alias) == getGameNameFrom(1, Trim(alias), "")

\* getGameTitle(alias): the title (in the model, the name) of the first
\* game with the name found; "TypeError" when no game is left after the
\* filter, where games[0] is undefined and its title is read.
getGameTitle(alias) ==
  LET gameName == getGameName(alias)
      filtered == SelectSeq(games, LAMBDA game : game.name = gameName)
  IN  IF Len(filtered) = 0 THEN "TypeError" ELSE filtered[1].name

\* The commands, in the order they are declared and registered.  Help, About,
\* Games, Subscribe, Unsubscribe and Prefix are the standard commands; NotifyAll
\* is the owner command of the command table, its trigger taken after the
\* address clause like the others.
commands ==
  << [label |-> "Help", permission |-> "USER", hasPrefix |-> TRUE,
      trigger |-> One(<<Lit(<<"help">>), Star(Ws), Eol>>)],
     [label |-> "About", permission |-> "USER", hasPrefix |-> TRUE,
      trigger |-> << <<Grp(One(<<Lit(<<"about">>)>>))>>,
                     <<Grp(One(<<Lit(<<"info">>)>>)), Star(Ws), Eol>> >>],
     [label |-> "Games", permission |-> "USER", hasPrefix |-> TRUE,
      trigger |-> One(<<Lit(<<"games">>), Star(Ws), Eol>>)],
     [label |-> "Subscribe", permission |-> "ADMIN", hasPrefix |-> TRUE,
      trigger |-> One(<<Lit(<<"sub">>), Opt(Grp(One(<<Lit(<<"scribe">>)>>))),
                        Cap("alias", One(<<Star(AnyTok)>>))>>)],
     [label |-> "Unsubscribe", permission |-> "ADMIN", hasPrefix |-> TRUE,
      trigger |-> One(<<Lit(<<"un", "sub">>), Opt(Grp(One(<<Lit(<<"scribe">>)>>))),
                        Cap("alias", One(<<Star(AnyTok)>>))>>)],
     [label |-> "Prefix", permission |-> "ADMIN", hasPrefix |-> TRUE,
      trigger |-> One(<<Lit(<<"prefix">>), Cap("newPrefix", One(<<Star(AnyTok)>>)), Eol>>)],
     [label |-> "NotifyAll", permission |-> "OWNER", hasPrefix |-> TRUE,
      trigger |-> One(<<Grp(One(<<Lit(<<"notifyAll">>), Opt(Grp(One(<<Lit(<<"Subs">>)>>)))>>)),
                        Star(Ws),
                        Cap("msg", One(<<Star(Grp(<< <<AnyTok>>, <<Ws>> >>))>>)),
                        Star(Ws), Eol>>)] >>

Labels == {commands[i].label : i \in 1..Len(commands)}

\* EscapeRegex(s): the pattern that matches the text s and nothing else.
EscapeRegex(s) == One(<<Lit(s)>>)

\* A string interpolated into a pattern as it is: "." stands for any character.
RawRegex(s) == One([i \in 1..Len(s) |-> IF s[i] = "." THEN AnyTok ELSE Lit(<<s[i]>>)])

\* The address clause: the tag, the channel prefix with an optional tag, or
\* the bot's prefix followed by the tag.
AddressClause(botPrefix, channelPrefix, userTag) ==
  One(<< Bol, Star(Ws),
         Grp(<< <<Grp(EscapeRegex(userTag))>>,
                <<Grp(One(<<Grp(EscapeRegex(channelPrefix)),
                            Opt(Grp(One(<<Star(Ws)>> \o EscapeRegex(userTag)[1])))>>))>>,
                <<Grp(One(<<Grp(RawRegex(botPrefix)), Star(Ws),
                            Grp(EscapeRegex(userTag))>>))>> >>),
         Star(Ws) >>)

\* Command.getRegExp: the prefix string followed by the trigger string.
getRegExp(command, botPrefix, channelPrefix) ==
  LET prefix == IF command.hasPrefix
                THEN AddressClause(botPrefix, channelPrefix, UserTag)
                ELSE <<>>
  IN  Concat(prefix, command.trigger)

(***************************************************************************)
(* Permission resolution.                                                  *)
(***************************************************************************)
\* The ids a configuration or the platform can name: the users and the
\* placeholder of channel posts.
Ids == UserIds \cup {channelAuthorID}

\* What the configuration and the platform answer during one resolution:
\* whether each call succeeds, the configured owners, the chat's metadata
\* and the chat's administrators (an absent list is the empty one).
Envs ==
  [ownersOK : BOOLEAN, owners : SUBSET Ids,
   chatOK : BOOLEAN, allAdmins : BOOLEAN, private : BOOLEAN,
   adminsOK : BOOLEAN, admins : SUBSET Ids]

\* Variants of the try block: the administrator list consulted before the
\* owners; the all-members-are-administrators flag not consulted; the
\* owners consulted before the placeholder id.
TryBodyAdminsFirst(uid, e) ==
  IF uid = channelAuthorID THEN "ADMIN"
  ELSE IF ~e.chatOK THEN "throw"
  ELSE IF e.allAdmins \/ e.private THEN "ADMIN"
  ELSE IF ~e.adminsOK THEN "throw"
  ELSE IF uid \in e.admins THEN "ADMIN"
  ELSE IF ~e.ownersOK THEN "throw"
  ELSE IF uid \in e.owners THEN "OWNER"
  ELSE "none"

TryBodyNoAllAdmins(uid, e) ==
  IF uid = channelAuthorID THEN "ADMIN"
  ELSE IF ~e.ownersOK THEN "throw"
  ELSE IF uid \in e.owners THEN "OWNER"
  ELSE IF ~e.chatOK THEN "throw"
  ELSE IF e.private THEN "ADMIN"
  ELSE IF ~e.adminsOK THEN "throw"
  ELSE IF uid \in e.admins THEN "ADMIN"
  ELSE "none"

TryBodyOwnersFirst(uid, e) ==
  IF ~e.ownersOK THEN "throw"
  ELSE IF uid \in e.owners THEN "OWNER"
  ELSE IF uid = channelAuthorID THEN "ADMIN"
  ELSE IF ~e.chatOK THEN "throw"
  ELSE IF e.allAdmins \/ e.private THEN "ADMIN"
  ELSE IF ~e.adminsOK THEN "throw"
  ELSE IF uid \in e.admins THEN "ADMIN"
  ELSE "none"

\* The body of the try block of getUserPermission: the role it returns,
\* "none" when it falls out of the block, "throw" when a call in it fails.
TryBody(uid, e) ==
  IF uid = channelAuthorID THEN "ADMIN"
  ELSE IF ~e.ownersOK THEN "throw"
  ELSE IF uid \in e.owners THEN "OWNER"
  ELSE IF ~e.chatOK THEN "throw"
  ELSE IF e.allAdmins \/ e.private THEN "ADMIN"
  ELSE IF ~e.adminsOK THEN "throw"
  ELSE IF uid \in e.admins THEN "ADMIN"
  ELSE "none"

\* Variant of getUserPermission without the catch: the error reaches the
\* caller.
getUserPermissionNoCatch(uid, e) ==
  LET r == TryBody(uid, e)
  IN  IF r = "none" THEN "USER" ELSE r

\* TelegramBot.getUserPermission: the error is caught and logged, and what
\* did not return inside the block is a regular user.
getUserPermission(uid, e) ==
  LET r == TryBody(uid, e)
  IN  IF r \in {"none", "throw"} THEN "USER" ELSE r

\* The roles the resolution can give an id, over all answers.
ResolvableRoles == [u \in Ids |-> {getUserPermission(u, e) : e \in Envs}]

\* user.hasPermission(channel, permission), on the resolved role.
hasPermission(role, permission) == RoleOrd[role] >= RoleOrd[permission]

\* Variant of the help filter whose ADMIN case accepts only ADMIN.
HelpFilterExact(cmdRole, role) ==
  CASE cmdRole = "OWNER" -> role = "OWNER"
    [] cmdRole = "ADMIN" -> role = "ADMIN"
    [] cmdRole = "USER" -> TRUE
    [] OTHER -> TRUE

\* The filter of the help text: whether a command of role cmdRole is listed
\* for a caller of role role.
HelpFilter(cmdRole, role) ==
  CASE cmdRole = "OWNER" -> role = "OWNER"
    [] cmdRole = "ADMIN" -> role = "OWNER" \/ role = "ADMIN"
    [] cmdRole = "USER" -> TRUE
    [] OTHER -> TRUE

\* user.hasPermission is asynchronous (it asks bot.getUserPermission, which
\* is): a call that is not awaited yields the promise, and a promise is an
\* object, which a condition takes for true whatever it resolves to.
Promise(v) == [kind |-> "promise", value |-> v]
Truthy(x) == IF x.kind = "promise" THEN TRUE ELSE x.value

\* The commandsList of the Help callback: the labels of the commands that
\* pass commands.filter(command => user.hasPermission(channel,
\* command.permission)), in order.
commandsList(role) ==
  LET kept == SelectSeq(commands,
                LAMBDA c : Truthy(Promise(hasPermission(role, c.permission))))
  IN  [i \in 1..Len(kept) |-> kept[i].label]

\* The help of the command group for a role: the labels of the commands
\* that pass the filter of the group's help function, in order.
groupHelp(role) ==
  LET kept == SelectSeq(commands, LAMBDA c : HelpFilter(c.permission, role))
  IN  [i \in 1..Len(kept) |-> kept[i].label]

(***************************************************************************)
(* The persisted subscriber data and the operations on it.                 *)
(***************************************************************************)
\* channel.isEqual(sub) and channel.toJSON(): a subscriber is kept by its id.
isEqual(ch, sub) == ch = sub
toJSON(ch) == ch

\* The first index of the sequence of ids that holds the channel, 0 when
\* there is none.
FirstIndex(ids, ch) ==
  IF \E i \in 1..Len(ids) : isEqual(ch, ids[i])
  THEN CHOOSE i \in 1..Len(ids) :
         isEqual(ch, ids[i]) /\ \A j \in 1..(i - 1) : ~isEqual(ch, ids[j])
  ELSE 0

\* Array.splice(i, 1)
Splice(seq, i) == SubSeq(seq, 1, i - 1) \o SubSeq(seq, i + 1, Len(seq))

\* Variant of addSubscriber without the search for the channel.
addSubscriberNoSearch(subs, client, ch, game) ==
  [ok |-> TRUE,
   subs |-> [subs EXCEPT ![client][game] = Append(subs[client][game], toJSON(ch))]]

\* Variant of addSubscriber that adds the channel to the game's list of
\* every client.
addSubscriberAllClients(subs, client, ch, game) ==
  LET gameSubs == subs[client][game]
  IN  IF \E i \in 1..Len(gameSubs) : isEqual(ch, gameSubs[i])
      THEN [ok |-> FALSE, subs |-> subs]
      ELSE [ok |-> TRUE,
            subs |-> [c \in DOMAIN subs |->
                        [subs[c] EXCEPT ![game] = Append(@, toJSON(ch))]]]

\* BotClient.addSubscriber: [ok, subs], ok = FALSE when already subscribed.
addSubscriber(subs, client, ch, game) ==
  LET gameSubs == subs[client][game]
  IN  IF \E i \in 1..Len(gameSubs) : isEqual(ch, gameSubs[i])
      THEN [ok |-> FALSE, subs |-> subs]
      ELSE [ok |-> TRUE,
            subs |-> [subs EXCEPT ![client][game] = Append(gameSubs, toJSON(ch))]]

\* Variant of removeSubscriber that splices at the index the search ended
\* with, found or not: a channel that is not in the list takes the last
\* entry with it.
removeSubscriberAlwaysSplice(subs, client, ch, game) ==
  LET gameSubs == subs[client][game]
      i == FirstIndex(gameSubs, ch)
      at == IF i = 0 THEN Len(gameSubs) ELSE i
  IN  [ok |-> i > 0,
       subs |-> IF at = 0 THEN subs ELSE [subs EXCEPT ![client][game] = Splice(gameSubs, at)]]

\* Variant of removeSubscriber that does not save the list it spliced.
removeSubscriberNoSave(subs, client, ch, game) ==
  [ok |-> FirstIndex(subs[client][game], ch) > 0, subs |-> subs]

\* BotClient.removeSubscriber: [ok, subs], ok = FALSE when never subscribed.
removeSubscriber(subs, client, ch, game) ==
  LET gameSubs == subs[client][game]
      i == FirstIndex(gameSubs, ch)
  IN  IF i = 0
      THEN [ok |-> FALSE, subs |-> subs]
      ELSE [ok |-> TRUE, subs |-> [subs EXCEPT ![client][game] = Splice(gameSubs, i)]]

\* channel.getPrefix(): the prefix stored for the channel, the bot's otherwise.
getPrefix(chans, client, ch) ==
  LET i == FirstIndex([j \in 1..Len(chans[client]) |-> chans[client][j].id], ch)
  IN  IF i > 0 /\ chans[client][i].prefix # <<>>
      THEN chans[client][i].prefix
      ELSE BotPrefix[client]

(***************************************************************************)
(* The command callbacks.  d is what one inbound message has done so far:  *)
(* the subscriber data (subs, chans), the commands that matched, the       *)
(* callbacks that ran and the messages sent, in order.                     *)
(***************************************************************************)
Reply(by, kind, arg) == [by |-> by, kind |-> kind, arg |-> arg]

\* bot.sendMessage(channel, text), recorded with the command that sent it.
Send(d, r) == [d EXCEPT !.sent = Append(@, r)]

HelpCallback(client, ch, caps, d) == Send(d, Reply("Help", "help", ""))

AboutCallback(client, ch, caps, d) == Send(d, Reply("About", "about", ""))

GamesCallback(client, ch, caps, d) == Send(d, Reply("Games", "games", ""))

\* The loop of the Subscribe callback over the games, from games[k].
RECURSIVE SubscribeGames(_, _, _, _, _)
SubscribeGames(k, client, ch, alias, d) ==
  IF k > Len(games) THEN d
  ELSE IF hasAlias(games[k], alias)
  THEN LET r == addSubscriber(d.subs, client, ch, games[k].name)
           kind == IF r.ok THEN "subscribed" ELSE "already"
       IN  SubscribeGames(k + 1, client, ch, alias,
             Send([d EXCEPT !.subs = r.subs], Reply("Subscribe", kind, games[k].name)))
  ELSE SubscribeGames(k + 1, client, ch, alias, d)

SubscribeCallback(client, ch, caps, d) ==
  LET alias == Trim(caps.alias)
      d1 == IF alias = <<>> THEN Send(d, Reply("Subscribe", "usage", "")) ELSE d
  IN  SubscribeGames(1, client, ch, alias, d1)

\* The loop of the Unsubscribe callback over the games, from games[k].
RECURSIVE UnsubscribeGames(_, _, _, _, _)
UnsubscribeGames(k, client, ch, alias, d) ==
  IF k > Len(games) THEN d
  ELSE IF hasAlias(games[k], alias)
  THEN LET r == removeSubscriber(d.subs, client, ch, games[k].name)
           kind == IF r.ok THEN "unsubscribed" ELSE "never"
       IN  UnsubscribeGames(k + 1, client, ch, alias,
             Send([d EXCEPT !.subs = r.subs], Reply("Unsubscribe", kind, games[k].name)))
  ELSE UnsubscribeGames(k + 1, client, ch, alias, d)

UnsubscribeCallback(client, ch, caps, d) ==
  LET alias == Trim(caps.alias)
      d1 == IF alias = <<>> THEN Send(d, Reply("Unsubscribe", "usage", "")) ELSE d
  IN  UnsubscribeGames(1, client, ch, alias, d1)

\* The Prefix callback: the reply, then the channel's record is updated,
\* removed when it holds nothing, or added.
PrefixCallback(client, ch, caps, d) ==
  LET typed == Trim(caps.newPrefix)
      newPrefix == IF typed = <<"reset">> THEN BotPrefix[client] ELSE typed
      chs == d.chans[client]
      i == FirstIndex([j \in 1..Len(chs) |-> chs[j].id], ch)
      sub == [chs[i] EXCEPT
                !.prefix = IF newPrefix # BotPrefix[client] THEN newPrefix ELSE <<>>]
      saved == IF i > 0
               THEN IF Len(sub.gameSubs) = 0 /\ sub.prefix = <<>>
                    THEN Splice(chs, i)
                    ELSE [chs EXCEPT ![i] = sub]
               ELSE Append(chs, [gameSubs |-> <<>>, id |-> ch, prefix |-> newPrefix])
  IN  IF typed = <<>>
      THEN Send(d, Reply("Prefix", "prefixInfo", ""))
      ELSE [Send(d, Reply("Prefix", "prefixChanged", "")) EXCEPT !.chans[client] = saved]

\* The NotifyAll callback: every bot is told to message all its subscribers
\* (recorded as "toAllSubs", one per bot).
NotifyAllCallback(client, ch, caps, d) ==
  LET text == Trim(caps.msg)
  IN  IF text = <<>>
      THEN Send(d, Reply("NotifyAll", "usage", ""))
      ELSE [Send(d, Reply("NotifyAll", "notifying", "")) EXCEPT
              !.sent = @ \o << Reply("NotifyAll", "toAllSubs", "discord"),
                               Reply("NotifyAll", "toAllSubs", "telegram") >>]

\* command.callback(bot, channel, user, match)
callback(command, client, ch, caps, d) ==
  LET d1 == [d EXCEPT !.ran = Append(@, command.label)]
  IN  CASE command.label = "Help" -> HelpCallback(client, ch, caps, d1)
        [] command.label = "About" -> AboutCallback(client, ch, caps, d1)
        [] command.label = "Games" -> GamesCallback(client, ch, caps, d1)
        [] command.label = "Subscribe" -> SubscribeCallback(client, ch, caps, d1)
        [] command.label = "Unsubscribe" -> UnsubscribeCallback(client, ch, caps, d1)
        [] command.label = "Prefix" -> PrefixCallback(client, ch, caps, d1)
        [] command.label = "NotifyAll" -> NotifyAllCallback(client, ch, caps, d1)

\* Variant of Command.execute without the return after the callback.
executeNoReturn(command, client, ch, role, caps, d) ==
  LET d1 == IF hasPermission(role, command.permission)
            THEN callback(command, client, ch, caps, d)
            ELSE d
  IN  Send(d1, Reply(command.label, "denied", command.permission))

\* Command.execute: the callback when the user has the command's permission,
\* the reply naming the permission otherwise.
execute(command, client, ch, role, caps, d) ==
  IF hasPermission(role, command.permission)
  THEN callback(command, client, ch, caps, d)
  ELSE Send(d, Reply(command.label, "denied", command.permission))

(***************************************************************************)
(* The inbound messages of the model.                                      *)
(***************************************************************************)
TelegramTexts ==
  { <<"/", "help">>,
    <<"/", "about">>,
    <<"hello">>,
    <<"/", "sub", "scribe">>,
    <<"/", "sub", "scribe", " ", "dota">>,
    <<"/", "sub", "scribe", " ", "info">>,
    <<"/", "un", "sub", "scribe", " ", "dota">>,
    <<"/", "prefix", " ", "!">>,
    <<"@bot", " ", "prefix", " ", "reset">>,
    <<"/", "notifyAll", " ", "hi">> }

DiscordTexts ==
  { <<"!", "sub", "scribe", " ", "dota">>,
    <<"!", "un", "sub", "scribe", " ", "dota">>,
    <<"!", "notifyAll", " ", "hi">> }

\* Texts for a channel whose prefix changes: a command behind either
\* prefix, behind the tag, behind the bot's prefix and the tag, and the
\* prefix command that sets the other prefix.
PrefixTexts ==
  { <<"/", "help">>,
    <<"!", "help">>,
    <<"@bot", " ", "help">>,
    <<"/", "@bot", " ", "help">>,
    <<"/", "prefix", " ", "!">>,
    <<"!", "prefix", " ", "/">> }

Texts == TelegramTexts \cup DiscordTexts \cup PrefixTexts

\* The prefixes a channel can have in the model.
ChannelPrefixes == {<<"/">>, <<"!">>}

\* reg.exec(text) for the expression of every command, by client, channel
\* prefix and text.
regExec ==
  [client \in Clients, channelPrefix \in ChannelPrefixes, text \in Texts |->
     [k \in 1..Len(commands) |->
        Exec(getRegExp(commands[k], BotPrefix[client], channelPrefix), text)]]

(***************************************************************************)
(* The adapters.  registerCommands registers every command on every bot,   *)
(* and each bot adds one listener per command: an inbound message goes to  *)
(* all of them, in the order of registration.                              *)
(***************************************************************************)
\* TelegramBot.onMessage for listener k: the trigger is compiled for the
\* channel (its prefix is read as the listener starts, before any callback
\* runs), and a match executes the command for the user.
onMessage(k, ch, channelPrefix, text, role, d) ==
  LET command == commands[k]
      regMatch == regExec["telegram", channelPrefix, text][k]
  IN  IF regMatch.matched
      THEN execute(command, "telegram", ch, role, regMatch.c,
                   [d EXCEPT !.matched = Append(@, command.label)])
      ELSE d

\* The listener DiscordBot.registerCommand adds for command k: the
\* expression it was registered with, and on a match the callback, which is
\* given the channel and the match and nothing about the author.
discordListener(k, ch, text, d) ==
  LET command == commands[k]
      regMatch == regExec["discord", BotPrefix["discord"], text][k]
  IN  IF regMatch.matched
      THEN callback(command, "discord", ch, regMatch.c,
                    [d EXCEPT !.matched = Append(@, command.label)])
      ELSE d

\* The listeners of the commands from commands[k], run on one message.
RECURSIVE telegramListeners(_, _, _, _, _, _)
telegramListeners(k, ch, channelPrefix, text, role, d) ==
  IF k > Len(commands) THEN d
  ELSE telegramListeners(k + 1, ch, channelPrefix, text, role,
                         onMessage(k, ch, channelPrefix, text, role, d))

RECURSIVE discordListeners(_, _, _, _)
discordListeners(k, ch, text, d) ==
  IF k > Len(commands) THEN d
  ELSE discordListeners(k + 1, ch, text, discordListener(k, ch, text, d))

(***************************************************************************)
(* The command group: one trigger for the address clause, which captures   *)
(* the rest of the message, and the commands tried on that rest.           *)
(***************************************************************************)
\* The trigger of the group: the address clause, the rest captured as
\* "group" (as little as possible), an optional trailing tag, the end.
groupTriggerUnanchored(botPrefix, channelPrefix) ==
  LET clause == AddressClause(botPrefix, channelPrefix, UserTag)[1]
  IN  One(SubSeq(clause, 2, Len(clause)) \o
          << Cap("group", One(<<LazyStar(AnyTok)>>)),
             Opt(Grp(One(<<Star(Ws)>> \o EscapeRegex(UserTag)[1]))),
             Star(Ws), Eol >>)

groupTrigger(botPrefix, channelPrefix) ==
  Concat(AddressClause(botPrefix, channelPrefix, UserTag),
         One(<< Cap("group", One(<<LazyStar(AnyTok)>>)),
                Opt(Grp(One(<<Star(Ws)>> \o EscapeRegex(UserTag)[1]))),
                Star(Ws), Eol >>))

\* The commands of the group whose expressions are written out, in the
\* order of the group's list, and the help command with the expression of
\* its label.
groupCommands ==
  << [label |-> "help", role |-> "USER",
      trigger |-> One(<<Bol, Star(Ws), Lit(<<"help">>), Star(Ws), Eol>>)],
     [label |-> "settings", role |-> "USER",
      trigger |-> << <<Bol, Star(Ws), Grp(One(<<Lit(<<"settings">>)>>))>>,
                     <<Grp(One(<<Lit(<<"options">>)>>))>>,
                     <<Grp(One(<<Lit(<<"config">>)>>)), Star(Ws), Eol>> >>],
     [label |-> "about", role |-> "USER",
      trigger |-> << <<Bol, Star(Ws), Grp(One(<<Lit(<<"about">>)>>))>>,
                     <<Grp(One(<<Lit(<<"info">>)>>)), Star(Ws), Eol>> >>],
     [label |-> "subscribe", role |-> "ADMIN",
      trigger |-> One(<<Bol, Star(Ws), Lit(<<"sub">>),
                        Opt(Grp(One(<<Lit(<<"scribe">>)>>))),
                        Cap("alias", One(<<Star(AnyTok)>>)), Star(Ws), Eol>>)],
     [label |-> "unsubscribe", role |-> "ADMIN",
      trigger |-> One(<<Bol, Star(Ws), Lit(<<"un", "sub">>),
                        Opt(Grp(One(<<Lit(<<"scribe">>)>>))),
                        Cap("alias", One(<<Star(AnyTok)>>)), Star(Ws), Eol>>)],
     [label |-> "prefix", role |-> "ADMIN",
      trigger |-> One(<<Bol, Star(Ws), Lit(<<"prefix">>),
                        Cap("newPrefix", One(<<Star(AnyTok)>>)), Star(Ws), Eol>>)],
     [label |-> "notifyAll", role |-> "OWNER",
      trigger |-> One(<<Bol, Star(Ws),
                        Grp(One(<<Lit(<<"notifyAll">>), Opt(Grp(One(<<Lit(<<"Subs">>)>>)))>>)),
                        Star(Ws),
                        Cap("msg", One(<<Star(Grp(<< <<AnyTok>>, <<Ws>> >>))>>)),
                        Star(Ws), Eol>>)] >>

\* The first command of the group from groupCommands[k] whose expression
\* matches the rest, 0 when none does.
RECURSIVE groupMatch(_, _)
groupMatch(k, rest) ==
  IF k > Len(groupCommands) THEN 0
  ELSE IF Exec(groupCommands[k].trigger, rest).matched THEN k
  ELSE groupMatch(k + 1, rest)

\* The group handles a message: nothing unless its trigger matches; then
\* the first command that matches the rest is executed for the role or
\* denied, and when no command matches the default action gets the rest.
groupExecute(text, botPrefix, channelPrefix, role) ==
  LET regMatch == Exec(groupTrigger(botPrefix, channelPrefix), text)
      rest == regMatch.c.group
      k == groupMatch(1, rest)
      none == [ran |-> <<>>, denied |-> <<>>, defaults |-> <<>>]
  IN  IF ~regMatch.matched THEN none
      ELSE IF k = 0 THEN [none EXCEPT !.defaults = <<rest>>]
      ELSE IF hasPermission(role, groupCommands[k].role)
      THEN [none EXCEPT !.ran = <<groupCommands[k].label>>]
      ELSE [none EXCEPT !.denied = <<groupCommands[k].label>>]

\* The texts sent to the group.
GroupTexts ==
  { <<"/", "help">>,
    <<"/", "foo">>,
    <<"/", "foo", " ", "@bot">>,
    <<"@bot", " ", "foo">>,
    <<" ", "/", " ", "@bot", " ", "foo", " ">>,
    <<"!", "foo">>,
    <<"/">>,
    <<"hello">>,
    <<"foo">>,
    <<"hello", " ", "/", "foo">>,
    <<"/", "sub", "scribe", " ", "dota">>,
    <<"/", "foo", " ", "info">>,
    <<"/", "notifyAll", " ", "hi">> }

(***************************************************************************)
(* Failing callbacks.  A callback returns, throws, or returns a promise    *)
(* that rejects.  A listener's result says where the failure ends: logged  *)
(* by the listener's catch, thrown out of the listener into the emitter,   *)
(* or left as the rejection of a promise nobody holds.                     *)
(***************************************************************************)
Failures == {"none", "throw", "reject"}

\* Command.execute, an async function: the callback is called and not
\* awaited.  What it throws rejects the promise of execute; the promise it
\* returns is dropped.
executeSettles(command, role, fails) ==
  IF hasPermission(role, command.permission)
  THEN [rejected |-> fails = "throw", dropped |-> fails = "reject"]
  ELSE [rejected |-> FALSE, dropped |-> FALSE]

\* TelegramBot.onMessage: execute is awaited inside try / catch.
onMessageSettles(command, role, fails) ==
  LET e == executeSettles(command, role, fails)
  IN  [logged |-> e.rejected, thrown |-> FALSE, unhandled |-> e.dropped]

\* The Discord listener: the callback is called with nothing around it.
discordListenerSettles(command, role, fails) ==
  [logged |-> FALSE, thrown |-> fails = "throw", unhandled |-> fails = "reject"]

(***************************************************************************)
(* Sending.  The platform either takes the message or fails.               *)
(***************************************************************************)
\* What a Discord channel id resolves to: nothing, one of the three kinds
\* of channel that take text, or another kind.
DiscordChannels == {"none", "DMChannel", "TextChannel", "GroupDMChannel", "VoiceChannel"}

\* The arguments of a send: the adapter, whether the message is a text or
\* a notification, what the channel id resolves to (Discord), and whether
\* the platform delivers.
SendArgs ==
  [client : Clients, channel : ChannelIds, notification : BOOLEAN,
   discordChannel : DiscordChannels, delivers : BOOLEAN]

\* TelegramBot.sendMessage: the platform call is awaited inside try/catch,
\* and true is returned after either branch.
telegramSendMessage(a) ==
  [returned |-> TRUE, thrown |-> FALSE, rejected |-> FALSE, unhandled |-> FALSE,
   logged |-> ~a.delivers, handed |-> a.delivers]

\* DiscordBot.sendMessageToChannel: false when the channel is unknown or of
\* another kind; otherwise send() is called, not awaited and with nothing
\* around it, and true is returned.
discordSendMessageToChannel(a) ==
  IF a.discordChannel \in {"DMChannel", "TextChannel", "GroupDMChannel"}
  THEN [returned |-> TRUE, thrown |-> FALSE, rejected |-> FALSE,
        unhandled |-> ~a.delivers, logged |-> FALSE, handed |-> a.delivers]
  ELSE [returned |-> FALSE, thrown |-> FALSE, rejected |-> FALSE, unhandled |-> FALSE,
        logged |-> FALSE, handed |-> FALSE]

\* The send operation of the adapter.
sendMessage(a) ==
  IF a.client = "telegram" THEN telegramSendMessage(a) ELSE discordSendMessageToChannel(a)

(***************************************************************************)
(* The Reddit provider: init reads the configuration once, and             *)
(* getNotifications asks Reddit for the submissions of every user.         *)
(***************************************************************************)
\* What the configuration holds: enabled, and whether each of clientId,
\* clientSecret, refreshToken and userName is there.
RedditConfigs ==
  [enabled : BOOLEAN, clientId : BOOLEAN, clientSecret : BOOLEAN,
   refreshToken : BOOLEAN, userName : BOOLEAN]

\* No parameter is missing.
Complete(cfg) == cfg.clientId /\ cfg.clientSecret /\ cfg.refreshToken /\ cfg.userName

\* Variant of init without the test of isInit.
redditInitAgain(p, cfg) ==
  IF ~cfg.enabled THEN [p EXCEPT !.isEnabled = FALSE, !.isInit = TRUE]
  ELSE IF ~Complete(cfg) THEN [p EXCEPT !.isEnabled = FALSE, !.isInit = TRUE]
  ELSE [p EXCEPT !.reddit = TRUE, !.isInit = TRUE]

\* Reddit.init with the configuration cfg on file.
redditInit(p, cfg) ==
  IF p.isInit THEN p
  ELSE IF ~cfg.enabled THEN [p EXCEPT !.isEnabled = FALSE, !.isInit = TRUE]
  ELSE IF ~Complete(cfg) THEN [p EXCEPT !.isEnabled = FALSE, !.isInit = TRUE]
  ELSE [p EXCEPT !.reddit = TRUE, !.isInit = TRUE]

\* Reddit.getNotifications for n users: the remote calls made, the number
\* of users whose submissions came back, and whether the client was used.
\* answers is the number of users for whom Reddit answers.
getNotifications(p, n, answers) ==
  IF ~p.isInit \/ ~p.isEnabled
  THEN [remote |-> 0, result |-> 0, usedClient |-> FALSE]
  ELSE [remote |-> n, result |-> IF p.reddit THEN answers ELSE 0, usedClient |-> n > 0]

(***************************************************************************)
(* The startup: startBots starts every bot that has autostart set, and     *)
(* startUpdater the updater.                                               *)
(***************************************************************************)
\* The bots, in the order of the list startBots goes through.
BotOrder == <<"discord", "telegram">>

\* What the configuration gives a bot (autostart, a token or none) and
\* whether the platform accepts the start of the polling.
BotConfigs == [autostart : BOOLEAN, token : BOOLEAN, pollOK : BOOLEAN]

\* bot.start(): what the promise resolves to, whether the bot is marked
\* running, and what is logged.
botStart(client, cfg) ==
  IF client = "telegram"
  THEN IF cfg.token
       THEN IF cfg.pollOK
            THEN [result |-> TRUE, isRunning |-> TRUE, log |-> <<>>]
            ELSE [result |-> FALSE, isRunning |-> FALSE,
                  log |-> <<[bot |-> client, line |-> "failedToStart"]>>]
       ELSE [result |-> FALSE, isRunning |-> FALSE, log |-> <<>>]
  ELSE IF cfg.token
       THEN [result |-> TRUE, isRunning |-> TRUE, log |-> <<>>]
       ELSE [result |-> FALSE, isRunning |-> FALSE, log |-> <<>>]

\* One round of the loop of startBots: [isRunning, log].  bot.start() is
\* called without await, so the condition tests the promise.
startBot(client, cfg) ==
  IF cfg.autostart
  THEN LET r == botStart(client, cfg)
       IN  IF Truthy(Promise(r.result))
           THEN [isRunning |-> r.isRunning,
                 log |-> r.log \o <<[bot |-> client, line |-> "started"]>>]
           ELSE [isRunning |-> r.isRunning,
                 log |-> r.log \o <<[bot |-> client, line |-> "didNotStart"]>>]
  ELSE [isRunning |-> FALSE, log |-> <<[bot |-> client, line |-> "autostartDisabled"]>>]

(***************************************************************************)
(* Messages in flight.  A listener is an async function: it runs until it  *)
(* awaits a platform call and goes on when the call returns, and the       *)
(* listeners of other messages run in between.  A listener awaits the      *)
(* bot's tag (getRegExp) and then the user's permission (execute); the     *)
(* callback and its reads and writes of the subscribers file follow        *)
(* without another await, and the sends are not awaited.                   *)
(***************************************************************************)
Msgs == {"m1", "m2"}

\* The order of arrival.
Arrival == [m1 |-> 1, m2 |-> 2]

AsyncTexts ==
  { <<"/", "sub", "scribe", " ", "dota">>,
    <<"/", "sub", "scribe", " ", "dota", ", ", "artifact">>,
    <<"/", "un", "sub", "scribe", " ", "dota">>,
    <<"/", "prefix", " ", "!">> }

\* The platform call of a message that never returns, if any.
Hangs == {"none", "tag", "role", "send"}

\* The subscribers file when the messages arrive: channel 1 is subscribed
\* to the first game on Telegram.
StoreAtArrival ==
  [subs |-> [c \in Clients |-> [g \in GameNames |->
               IF c = "telegram" /\ g = games[1].name THEN <<1>> ELSE <<>>]],
   chans |-> [c \in Clients |-> <<>>]]

\* Variant of getSubscribers that answers with what the file held when the
\* messages arrived.
getSubscribersAtArrival(store) == StoreAtArrival

\* getSubscribers(): the file is read when the call is made.
getSubscribers(store) == store

\* Variant of resumable in which the listeners take turns in the order of
\* arrival.
resumableInTurn(m, tasks) ==
  /\ \/ tasks[m].pc = "tag" /\ tasks[m].hang # "tag"
     \/ tasks[m].pc = "role" /\ tasks[m].hang # "role"
  /\ \A o \in Msgs : Arrival[o] < Arrival[m] => tasks[o].pc = "done"

\* The listener of message m can go on: the call it awaits has returned.
resumable(m, tasks) ==
  \/ tasks[m].pc = "tag" /\ tasks[m].hang # "tag"
  \/ tasks[m].pc = "role" /\ tasks[m].hang # "role"

\* reg.exec(text) for the expression of every command, for the texts of
\* the messages in flight on a Telegram channel with the default prefix.
asyncExec ==
  [text \in AsyncTexts |->
     [k \in 1..Len(commands) |->
        Exec(getRegExp(commands[k], BotPrefix["telegram"], BotPrefix["telegram"]),
             text)]]

\* The command whose expression matches the text.
taskCommand(text) ==
  CHOOSE k \in 1..Len(commands) : asyncExec[text][k].matched

\* alias.split(', ')
RECURSIVE split(_)
split(alias) ==
  IF \E i \in 1..Len(alias) : alias[i] = ", "
  THEN LET i == CHOOSE j \in 1..Len(alias) :
                  alias[j] = ", " /\ \A h \in 1..(j - 1) : alias[h] # ", "
       IN  <<SubSeq(alias, 1, i - 1)>> \o split(SubSeq(alias, i + 1, Len(alias)))
  ELSE <<alias>>

\* Game.getGamesByAlias(alias)
getGamesByAlias(alias) == SelectSeq(games, LAMBDA game : hasAlias(game, alias))

\* [...new Set(seq)]: the first occurrence of every element, in order.
RECURSIVE unique(_)
unique(seq) ==
  IF seq = <<>> THEN <<>>
  ELSE LET init == unique(SubSeq(seq, 1, Len(seq) - 1))
           x == seq[Len(seq)]
       IN  IF \E i \in 1..Len(init) : init[i] = x THEN init ELSE Append(init, x)

\* The games of the aliases of a subscribe message.
RECURSIVE aliasGamesFrom(_, _)
aliasGamesFrom(aliases, k) ==
  IF k > Len(aliases) THEN <<>>
  ELSE getGamesByAlias(aliases[k]) \o aliasGamesFrom(aliases, k + 1)

aliasGames(alias) == unique(aliasGamesFrom(split(Trim(alias)), 1))

\* The games of the aliases of every text of a message in flight.
asyncGames ==
  [text \in AsyncTexts |-> aliasGames(asyncExec[text][taskCommand(text)].c.alias)]

\* mapAsync(aliasGames, async (game) => await addSubscriber(channel, game)),
\* from game k: Promise.all(array.map(...)) starts the callbacks one after
\* the other, and each calls addSubscriber, which reads and writes the file
\* and returns, before it awaits.
RECURSIVE mapAsyncAddSubscriber(_, _, _, _, _)
mapAsyncAddSubscriber(gs, k, client, ch, file) ==
  IF k > Len(gs) THEN file
  ELSE LET read == getSubscribers(file)
           r == addSubscriber(read.subs, client, ch, gs[k].name)
       IN  mapAsyncAddSubscriber(gs, k + 1, client, ch,
             IF r.ok THEN [subs |-> r.subs, chans |-> read.chans] ELSE file)

\* aliasGames.map((game) => removeSubscriber(channel, game)), from game k.
RECURSIVE mapRemoveSubscriber(_, _, _, _, _)
mapRemoveSubscriber(gs, k, client, ch, file) ==
  IF k > Len(gs) THEN file
  ELSE LET read == getSubscribers(file)
           r == removeSubscriber(read.subs, client, ch, gs[k].name)
       IN  mapRemoveSubscriber(gs, k + 1, client, ch,
             IF r.ok THEN [subs |-> r.subs, chans |-> read.chans] ELSE file)

\* The handlers of subCmd and unsubCmd: the file they leave and the kinds
\* of the replies they send.  The usage hint is sent when no alias is
\* given, and the handler goes on; the summary is sent at the end.
subCmd(client, ch, alias, file) ==
  [file |-> mapAsyncAddSubscriber(aliasGames(alias), 1, client, ch, file),
   replies |-> (IF Trim(alias) = <<>> THEN <<"usage">> ELSE <<>>) \o <<"summary">>]

unsubCmd(client, ch, alias, file) ==
  [file |-> mapRemoveSubscriber(aliasGames(alias), 1, client, ch, file),
   replies |-> (IF Trim(alias) = <<>> THEN <<"usage">> ELSE <<>>) \o <<"summary">>]

\* The callbacks of the Subscribe and Unsubscribe commands, in the same
\* form.
commandCallback(label, client, ch, alias, file) ==
  LET caps == [NoCaps EXCEPT !.alias = alias]
      d0 == [subs |-> file.subs, chans |-> file.chans,
             matched |-> <<>>, ran |-> <<>>, sent |-> <<>>]
      d == IF label = "Subscribe" THEN SubscribeCallback(client, ch, caps, d0)
           ELSE UnsubscribeCallback(client, ch, caps, d0)
  IN  [file |-> [subs |-> d.subs, chans |-> d.chans],
       replies |-> [i \in 1..Len(d.sent) |-> d.sent[i].kind]]

\* The callback of the task's command run on the file: the file it leaves.
taskEffect(t, file) ==
  LET k == taskCommand(t.text)
      caps == asyncExec[t.text][k].c
  IN  IF commands[k].label = "Subscribe"
      THEN mapAsyncAddSubscriber(asyncGames[t.text], 1, "telegram", t.channel, file)
      ELSE LET read == getSubscribers(file)
               d == execute(commands[k], "telegram", t.channel, "ADMIN", caps,
                            [subs |-> read.subs, chans |-> read.chans,
                             matched |-> <<>>, ran |-> <<>>, sent |-> <<>>])
           IN  [subs |-> d.subs, chans |-> d.chans]

(***************************************************************************)
(* State.                                                                  *)
(***************************************************************************)
VARIABLES
  subscribers,  \* the persisted subscribers: client -> game -> channel ids
  channels,     \* the persisted channel records: client -> records
  last,         \* the last inbound message: client, channel, text, user, role
  matched,      \* the commands whose trigger matched it, in order
  ran,          \* the commands whose callback was invoked for it, in order
  sent,         \* the messages sent for it, in order
  res,          \* the last role resolution
  chk,          \* the last role check
  grp,          \* the last message given to the command group
  err,          \* the last message whose callback may fail
  inflight,     \* the messages in flight: text, channel, hung call, position
  boot,         \* the startup: the bots' configuration, the loop's position, the log
  call,         \* one call of an operation: its arguments and what it gave
  provider      \* the Reddit provider: isInit, isEnabled, the client, the last call

\* The variables of the calls that are looked at on their own.
aux == <<grp, err, inflight>>

\* The variables of the parts of the program that run beside the dispatch.
side == <<boot, call, provider>>

vars == <<subscribers, channels, last, matched, ran, sent, res, chk, aux, side>>

NoMessage == [client |-> "none", channel |-> 0, text |-> <<>>, post |-> FALSE, role |-> "USER"]
NoEnv ==
  [ownersOK |-> TRUE, owners |-> {}, chatOK |-> TRUE, allAdmins |-> FALSE,
   private |-> FALSE, adminsOK |-> TRUE, admins |-> {}]
NoRes == [st |-> "idle", uid |-> channelAuthorID, env |-> NoEnv, role |-> "USER"]
NoChk ==
  [st |-> "idle", actual |-> "USER", required |-> "USER", exec |-> TRUE, help |-> TRUE,
   list |-> <<>>, groupList |-> <<>>]

NoGrp ==
  [st |-> "idle", text |-> <<>>, channel |-> 0, channelPrefix |-> <<>>, role |-> "USER",
   ran |-> <<>>, denied |-> <<>>, defaults |-> <<>>]

NoErr ==
  [st |-> "idle", client |-> "telegram", channel |-> 0, k |-> 1, role |-> "USER",
   fails |-> "none", logged |-> FALSE, thrown |-> FALSE, unhandled |-> FALSE]

NoInflight ==
  [m \in Msgs |-> [text |-> <<>>, channel |-> 0, hang |-> "none", pc |-> "idle"]]

NoBoot ==
  [st |-> "idle", bots |-> <<>>, i |-> 0, running |-> {}, log |-> <<>>, updater |-> FALSE]

\* Nothing runs beside the dispatch.
NoCall == [st |-> "idle"]

\* The Reddit module as loaded: isInit = false, isEnabled = true, no client.
NoOp ==
  [fn |-> "none",
   cfg |-> [enabled |-> FALSE, clientId |-> FALSE, clientSecret |-> FALSE,
            refreshToken |-> FALSE, userName |-> FALSE],
   users |-> 0, remote |-> 0, result |-> 0, usedClient |-> FALSE]
NoProvider ==
  [isInit |-> FALSE, isEnabled |-> TRUE, reddit |-> FALSE, ops |-> 0, op |-> NoOp]

SideIdle == boot = NoBoot /\ call = NoCall /\ provider = NoProvider

\* No call is looked at on its own.
AuxIdle == grp = NoGrp /\ err = NoErr /\ inflight = NoInflight

Init ==
  /\ subscribers = [c \in Clients |-> [g \in GameNames |-> <<>>]]
  /\ channels = [c \in Clients |-> <<>>]
  /\ last = NoMessage
  /\ matched = <<>>
  /\ ran = <<>>
  /\ sent = <<>>
  /\ res = NoRes
  /\ chk = NoChk
  /\ AuxIdle
  /\ SideIdle

\* What a message starts from.
Fresh == [subs |-> subscribers, chans |-> channels, matched |-> <<>>, ran |-> <<>>, sent |-> <<>>]

Done(d) ==
  /\ subscribers' = d.subs
  /\ channels' = d.chans
  /\ matched' = d.matched
  /\ ran' = d.ran
  /\ sent' = d.sent

\* A message (of a user, msg.from) or a channel post (no msg.from) arrives
\* on Telegram.  role is what the resolution gives the user id while the
\* message is handled.
TelegramMessage(ch, post, text, role) ==
  /\ role \in IF post THEN ResolvableRoles[channelAuthorID]
                      ELSE UNION {ResolvableRoles[u] : u \in UserIds}
  /\ last' = [client |-> "telegram", channel |-> ch, text |-> text,
              post |-> post, role |-> role]
  /\ Done(telegramListeners(1, ch, getPrefix(channels, "telegram", ch), text, role, Fresh))
  /\ UNCHANGED <<res, chk, aux, side>>

\* A message arrives on Discord from an author whose standing on the server
\* is role.
DiscordMessage(ch, text, role) ==
  /\ last' = [client |-> "discord", channel |-> ch, text |-> text,
              post |-> FALSE, role |-> role]
  /\ Done(discordListeners(1, ch, text, Fresh))
  /\ UNCHANGED <<res, chk, aux, side>>

Next ==
  \/ \E ch \in ChannelIds, post \in BOOLEAN, text \in TelegramTexts, role \in Roles :
       TelegramMessage(ch, post, text, role)
  \/ \E ch \in ChannelIds, text \in DiscordTexts, role \in Roles :
       DiscordMessage(ch, text, role)

Spec == Init /\ [][Next]_vars

(***************************************************************************)
(* The startup on its own: the initial state holds the configuration, a    *)
(* step is one round of the loop over the bots or the start of the         *)
(* updater.                                                                *)
(***************************************************************************)
InitBoot ==
  /\ subscribers = [c \in Clients |-> [g \in GameNames |-> <<>>]]
  /\ channels = [c \in Clients |-> <<>>]
  /\ last = NoMessage
  /\ matched = <<>>
  /\ ran = <<>>
  /\ sent = <<>>
  /\ res = NoRes
  /\ chk = NoChk
  /\ AuxIdle
  /\ boot \in [st : {"bots"}, bots : [1..Len(BotOrder) -> BotConfigs], i : {1},
               running : {{}}, log : {<<>>}, updater : BOOLEAN]
  /\ call = NoCall
  /\ provider = NoProvider

\* The round of the loop for the next bot.
StartBot ==
  /\ boot.st = "bots"
  /\ boot.i <= Len(BotOrder)
  /\ LET client == BotOrder[boot.i]
         r == startBot(client, boot.bots[boot.i])
     IN  boot' = [boot EXCEPT
                    !.i = @ + 1,
                    !.running = IF r.isRunning THEN @ \cup {client} ELSE @,
                    !.log = @ \o r.log]
  /\ UNCHANGED <<subscribers, channels, last, matched, ran, sent, res, chk, aux, call, provider>>

\* startUpdater, after the loop: boot.updater is the updater's autostart.
StartUpdater ==
  /\ boot.st = "bots"
  /\ boot.i > Len(BotOrder)
  /\ boot' = [boot EXCEPT
                 !.st = "done",
                 !.log = IF boot.updater
                         THEN @ \o <<[bot |-> "updater", line |-> "started"]>> ELSE @]
  /\ UNCHANGED <<subscribers, channels, last, matched, ran, sent, res, chk, aux, call, provider>>

NextBoot == StartBot \/ StartUpdater

SpecBoot == InitBoot /\ [][NextBoot]_vars

(***************************************************************************)
(* One call of an operation on its own: the initial state holds the        *)
(* arguments, the step makes the call.                                     *)
(***************************************************************************)
\* The rest of the state while one call is looked at.
CallOnly ==
  /\ subscribers = [c \in Clients |-> [g \in GameNames |-> <<>>]]
  /\ channels = [c \in Clients |-> <<>>]
  /\ last = NoMessage
  /\ matched = <<>>
  /\ ran = <<>>
  /\ sent = <<>>
  /\ res = NoRes
  /\ chk = NoChk
  /\ AuxIdle
  /\ boot = NoBoot
  /\ provider = NoProvider

InitSend ==
  /\ CallOnly
  /\ call \in [st : {"args"}, fn : {"sendMessage"}, args : SendArgs]

SendMessage ==
  /\ call.st = "args"
  /\ call.fn = "sendMessage"
  /\ call' = [st |-> "done", fn |-> call.fn, args |-> call.args,
              out |-> sendMessage(call.args)]
  /\ UNCHANGED <<subscribers, channels, last, matched, ran, sent, res, chk, aux, boot, provider>>

NextSend == SendMessage

SpecSend == InitSend /\ [][NextSend]_vars

(***************************************************************************)
(* One command's expression run on one text: the commands registered on    *)
(* the bots get the text with the channel prefix in front, the commands of *)
(* the group get the remainder the group's trigger captured.               *)
(***************************************************************************)
\* The remainders after the address clause.
TriggerTexts ==
  { <<"help">>,
    <<"about">>,
    <<"info">>,
    <<"config">>,
    <<"sub", "scribe", " ", "dota">>,
    <<"sub", "scribe", " ", "info">>,
    <<"un", "sub", "scribe", " ", "dota">>,
    <<"un", "sub", "scribe", " ", "config">>,
    <<"prefix", " ", "info">> }

\* Whether the expression of command k of the list matches.
triggerMatches(list, k, rest) ==
  IF list = "commands"
  THEN Exec(getRegExp(commands[k], BotPrefix["telegram"], BotPrefix["telegram"]),
            BotPrefix["telegram"] \o rest).matched
  ELSE Exec(groupCommands[k].trigger, rest).matched

InitTrigger ==
  /\ CallOnly
  /\ call \in [st : {"args"}, fn : {"exec"}, list : {"commands", "groupCommands"},
               k : 1..Len(commands), rest : TriggerTexts]

RegExec ==
  /\ call.st = "args"
  /\ call.fn = "exec"
  /\ call' = [call EXCEPT !.st = "done"] @@
             [out |-> triggerMatches(call.list, call.k, call.rest)]
  /\ UNCHANGED <<subscribers, channels, last, matched, ran, sent, res, chk, aux, boot, provider>>

NextTrigger == RegExec

SpecTrigger == InitTrigger /\ [][NextTrigger]_vars

(***************************************************************************)
(* The address clause on its own, for prefixes that are or are not regex   *)
(* metacharacters.                                                         *)
(***************************************************************************)
\* The prefixes of the bot and of the channel: "." is a metacharacter.
ClausePrefixes == {<<"/">>, <<"!">>, <<".">>}

ClauseTexts ==
  { <<"/", "help">>,
    <<"!", "help">>,
    <<".", "help">>,
    <<"x", "help">>,
    <<"@bot", " ", "help">>,
    <<".", "@bot", " ", "help">>,
    <<"x", "@bot", " ", "help">>,
    <<"help">> }

InitClause ==
  /\ CallOnly
  /\ call \in [st : {"args"}, fn : {"clause"}, botPrefix : ClausePrefixes,
               channelPrefix : ClausePrefixes, text : ClauseTexts]

ClauseExec ==
  /\ call.st = "args"
  /\ call.fn = "clause"
  /\ call' = [call EXCEPT !.st = "done"] @@
             [out |-> Exec(AddressClause(call.botPrefix, call.channelPrefix, UserTag),
                           call.text).matched]
  /\ UNCHANGED <<subscribers, channels, last, matched, ran, sent, res, chk, aux, boot, provider>>

NextClause == ClauseExec

SpecClause == InitClause /\ [][NextClause]_vars

(***************************************************************************)
(* The tag lookup on its own: getMe answers or fails, and the expression   *)
(* of a command is compiled with what getUserTag gives.                    *)
(***************************************************************************)
\* TelegramBot.getUserName: the user name of getMe; a failure is caught and
\* logged and the function ends without a return (undefined).
getUserName(getMeOK) ==
  IF getMeOK THEN [value |-> "bot", logged |-> FALSE, thrown |-> FALSE]
  ELSE [value |-> "undefined", logged |-> TRUE, thrown |-> FALSE]

\* TelegramBot.getUserTag: `@${userName}`, as one token.
getUserTag(getMeOK) ==
  LET userName == getUserName(getMeOK)
  IN  [value |-> <<"@" \o userName.value>>, logged |-> userName.logged,
       thrown |-> userName.thrown]

\* The commands without parameters whose trigger is one alternative.
TagCommands == {k \in 1..Len(commands) : commands[k].label \in {"Help", "Games"}}

TagTexts ==
  { <<"/", "help">>,
    <<"!", "help">>,
    <<"/", "games">>,
    <<"help">>,
    <<"@bot", " ", "help">>,
    <<"/", "@bot", " ", "help">>,
    <<"@undefined", " ", "help">>,
    <<"/", " ", "@undefined", " ", "games">>,
    <<"!", "@undefined", " ", "help">> }

\* onMessage up to the match, for command k: getRegExp with the tag that
\* getUserTag gives, and reg.exec.
onMessageMatch(k, channelPrefix, text, getMeOK) ==
  LET tag == getUserTag(getMeOK)
      reg == Concat(AddressClause(BotPrefix["telegram"], channelPrefix, tag.value),
                    commands[k].trigger)
  IN  [matched |-> Exec(reg, text).matched, logged |-> tag.logged, thrown |-> tag.thrown]

InitTag ==
  /\ CallOnly
  /\ call \in [st : {"args"}, fn : {"tag"}, getMeOK : BOOLEAN, k : TagCommands,
               channelPrefix : ChannelPrefixes, text : TagTexts]

TagLookup ==
  /\ call.st = "args"
  /\ call.fn = "tag"
  /\ call' = [call EXCEPT !.st = "done"] @@
             [out |-> onMessageMatch(call.k, call.channelPrefix, call.text, call.getMeOK)]
  /\ UNCHANGED <<subscribers, channels, last, matched, ran, sent, res, chk, aux, boot, provider>>

NextTag == TagLookup

SpecTag == InitTag /\ [][NextTag]_vars

(***************************************************************************)
(* The subscribe and unsubscribe handlers on their own, with and without   *)
(* a game name.                                                            *)
(***************************************************************************)
AliasTexts == {<<>>, <<" ">>, <<" ", "dota">>}

InitAlias ==
  /\ CallOnly
  /\ call \in [st : {"args"},
               fn : {"subCmd", "unsubCmd", "Subscribe", "Unsubscribe"},
               client : Clients, channel : ChannelIds, alias : AliasTexts,
               file : {StoreAtArrival,
                       [subs |-> [c \in Clients |-> [g \in GameNames |-> <<>>]],
                        chans |-> [c \in Clients |-> <<>>]]}]

AliasCall ==
  /\ call.st = "args"
  /\ call.fn \in {"subCmd", "unsubCmd", "Subscribe", "Unsubscribe"}
  /\ call' = [call EXCEPT !.st = "done"] @@
             [out |-> CASE call.fn = "subCmd" ->
                             subCmd(call.client, call.channel, call.alias, call.file)
                        [] call.fn = "unsubCmd" ->
                             unsubCmd(call.client, call.channel, call.alias, call.file)
                        [] OTHER ->
                             commandCallback(call.fn, call.client, call.channel,
                                             call.alias, call.file)]
  /\ UNCHANGED <<subscribers, channels, last, matched, ran, sent, res, chk, aux, boot, provider>>

NextAlias == AliasCall

SpecAlias == InitAlias /\ [][NextAlias]_vars

(***************************************************************************)
(* addSubscriber and removeSubscriber on their own: the initial state      *)
(* holds a subscribers file and the arguments, and each step is one call   *)
(* with these arguments on the file the last call left.                    *)
(***************************************************************************)
\* The calls made on one file.
MaxCalls == 2

\* The channel ids of the file: one more than the channels that send
\* messages, so that a list can hold two others.
SubscriberIds == 1..(NumChannels + 1)

\* The lists of subscribers of one game: no channel twice.
SubscriberLists == {<<>>, <<1>>, <<2, 1>>, <<1, 3>>, <<3, 2>>}

InitStore ==
  /\ CallOnly
  /\ call \in [st : {"args"}, fn : {"store"}, client : Clients, game : GameNames,
               channel : SubscriberIds,
               subs : [Clients -> [GameNames -> SubscriberLists]],
               steps : {<<>>}]

AddSubscriber ==
  /\ call.fn = "store"
  /\ Len(call.steps) < MaxCalls
  /\ LET r == addSubscriber(call.subs, call.client, call.channel, call.game)
     IN  call' = [call EXCEPT
                    !.st = "done",
                    !.subs = r.subs,
                    !.steps = Append(@, [fn |-> "addSubscriber", ok |-> r.ok,
                                         before |-> call.subs, after |-> r.subs])]
  /\ UNCHANGED <<subscribers, channels, last, matched, ran, sent, res, chk, aux, boot, provider>>

RemoveSubscriber ==
  /\ call.fn = "store"
  /\ Len(call.steps) < MaxCalls
  /\ LET r == removeSubscriber(call.subs, call.client, call.channel, call.game)
     IN  call' = [call EXCEPT
                    !.st = "done",
                    !.subs = r.subs,
                    !.steps = Append(@, [fn |-> "removeSubscriber", ok |-> r.ok,
                                         before |-> call.subs, after |-> r.subs])]
  /\ UNCHANGED <<subscribers, channels, last, matched, ran, sent, res, chk, aux, boot, provider>>

NextStore == AddSubscriber \/ RemoveSubscriber

SpecStore == InitStore /\ [][NextStore]_vars

(***************************************************************************)
(* The Reddit provider on its own: init and getNotifications are called    *)
(* in any order, with whatever the configuration holds at the time.        *)
(***************************************************************************)
\* The calls made to the provider, and the users of one call.
MaxOps == 4
MaxRedditUsers == 2

InitReddit ==
  /\ CallOnly
  /\ call = NoCall

RedditInit(cfg) ==
  /\ provider.ops < MaxOps
  /\ provider' = [redditInit(provider, cfg) EXCEPT
                     !.ops = provider.ops + 1,
                     !.op = [NoOp EXCEPT !.fn = "init", !.cfg = cfg]]
  /\ UNCHANGED <<subscribers, channels, last, matched, ran, sent, res, chk, aux, boot, call>>

RedditGetNotifications(n, answers) ==
  /\ provider.ops < MaxOps
  /\ answers <= n
  /\ LET r == getNotifications(provider, n, answers)
     IN  provider' = [provider EXCEPT
                        !.ops = @ + 1,
                        !.op = [NoOp EXCEPT !.fn = "getNotifications", !.users = n,
                                            !.remote = r.remote, !.result = r.result,
                                            !.usedClient = r.usedClient]]
  /\ UNCHANGED <<subscribers, channels, last, matched, ran, sent, res, chk, aux, boot, call>>

NextReddit ==
  \/ \E cfg \in RedditConfigs : RedditInit(cfg)
  \/ \E n \in 0..MaxRedditUsers, answers \in 0..MaxRedditUsers :
       RedditGetNotifications(n, answers)

SpecReddit == InitReddit /\ [][NextReddit]_vars

(***************************************************************************)
(* Channels whose prefix changes: the same listeners, with the texts that  *)
(* tell the prefixes apart, sent by an administrator.                      *)
(***************************************************************************)
InitPrefix == Init

NextPrefix ==
  \/ \E ch \in ChannelIds, text \in PrefixTexts : TelegramMessage(ch, FALSE, text, "ADMIN")
  \/ \E ch \in ChannelIds, text \in PrefixTexts : DiscordMessage(ch, text, "ADMIN")

SpecPrefix == InitPrefix /\ [][NextPrefix]_vars

(***************************************************************************)
(* The role resolution and the role checks on their own: the initial       *)
(* state holds the arguments of one call, and the step makes the call.     *)
(***************************************************************************)
InitRole ==
  /\ subscribers = [c \in Clients |-> [g \in GameNames |-> <<>>]]
  /\ channels = [c \in Clients |-> <<>>]
  /\ last = NoMessage
  /\ matched = <<>>
  /\ ran = <<>>
  /\ sent = <<>>
  /\ AuxIdle
  /\ SideIdle
  /\ \/ /\ res \in [st : {"args"}, uid : Ids, env : Envs, role : {"USER"}]
        /\ chk = NoChk
     \/ /\ res = NoRes
        /\ chk \in [st : {"args"}, actual : Roles, required : Roles,
                    exec : {TRUE}, help : {TRUE}, list : {<<>>}, groupList : {<<>>}]

\* bot.getUserPermission(user, channel)
ResolveRole ==
  /\ res.st = "args"
  /\ res' = [res EXCEPT !.st = "done", !.role = getUserPermission(res.uid, res.env)]
  /\ UNCHANGED <<subscribers, channels, last, matched, ran, sent, chk, aux, side>>

\* The two role checks, the one of Command.execute and the help filter, and
\* the help lists for the role.
CheckRole ==
  /\ chk.st = "args"
  /\ chk' = [chk EXCEPT !.st = "done",
                        !.exec = hasPermission(chk.actual, chk.required),
                        !.help = HelpFilter(chk.required, chk.actual),
                        !.list = commandsList(chk.actual),
                        !.groupList = groupHelp(chk.actual)]
  /\ UNCHANGED <<subscribers, channels, last, matched, ran, sent, res, aux, side>>

NextRole == ResolveRole \/ CheckRole

SpecRole == InitRole /\ [][NextRole]_vars

(***************************************************************************)
(* The command group on its own: the initial state holds one message for   *)
(* the group, and the step lets the group handle it.                       *)
(***************************************************************************)
InitGroup ==
  /\ subscribers = [c \in Clients |-> [g \in GameNames |-> <<>>]]
  /\ channels = [c \in Clients |-> <<>>]
  /\ last = NoMessage
  /\ matched = <<>>
  /\ ran = <<>>
  /\ sent = <<>>
  /\ res = NoRes
  /\ chk = NoChk
  /\ grp \in [st : {"args"}, text : GroupTexts, channel : ChannelIds,
              channelPrefix : ChannelPrefixes, role : Roles,
              ran : {<<>>}, denied : {<<>>}, defaults : {<<>>}]
  /\ err = NoErr
  /\ inflight = NoInflight
  /\ SideIdle

GroupMessage ==
  /\ grp.st = "args"
  /\ LET r == groupExecute(grp.text, BotPrefix["telegram"], grp.channelPrefix, grp.role)
     IN  grp' = [grp EXCEPT !.st = "done", !.ran = r.ran, !.denied = r.denied,
                            !.defaults = r.defaults]
  /\ UNCHANGED <<subscribers, channels, last, matched, ran, sent, res, chk, err, inflight, side>>

NextGroup == GroupMessage

SpecGroup == InitGroup /\ [][NextGroup]_vars

(***************************************************************************)
(* Failing callbacks on their own: the initial state holds a message that  *)
(* matched command k and the way the callback fails, and the step runs the *)
(* adapter's listener.                                                     *)
(***************************************************************************)
InitFail ==
  /\ subscribers = [c \in Clients |-> [g \in GameNames |-> <<>>]]
  /\ channels = [c \in Clients |-> <<>>]
  /\ last = NoMessage
  /\ matched = <<>>
  /\ ran = <<>>
  /\ sent = <<>>
  /\ res = NoRes
  /\ chk = NoChk
  /\ grp = NoGrp
  /\ inflight = NoInflight
  /\ SideIdle
  /\ err \in [st : {"args"}, client : Clients, channel : ChannelIds,
              k : 1..Len(commands), role : Roles, fails : Failures,
              logged : {FALSE}, thrown : {FALSE}, unhandled : {FALSE}]

TelegramListener ==
  /\ err.st = "args"
  /\ err.client = "telegram"
  /\ LET r == onMessageSettles(commands[err.k], err.role, err.fails)
     IN  err' = [err EXCEPT !.st = "done", !.logged = r.logged, !.thrown = r.thrown,
                            !.unhandled = r.unhandled]
  /\ UNCHANGED <<subscribers, channels, last, matched, ran, sent, res, chk, grp, inflight, side>>

DiscordListener ==
  /\ err.st = "args"
  /\ err.client = "discord"
  /\ LET r == discordListenerSettles(commands[err.k], err.role, err.fails)
     IN  err' = [err EXCEPT !.st = "done", !.logged = r.logged, !.thrown = r.thrown,
                            !.unhandled = r.unhandled]
  /\ UNCHANGED <<subscribers, channels, last, matched, ran, sent, res, chk, grp, inflight, side>>

NextFail == TelegramListener \/ DiscordListener

SpecFail == InitFail /\ [][NextFail]_vars

(***************************************************************************)
(* Messages in flight on their own: the initial state holds the messages   *)
(* as they arrive, each step is the part of one listener between two       *)
(* awaits.  The event loop runs every listener whose call has returned.    *)
(***************************************************************************)
InitAsync ==
  /\ subscribers = StoreAtArrival.subs
  /\ channels = StoreAtArrival.chans
  /\ last = NoMessage
  /\ matched = <<>>
  /\ ran = <<>>
  /\ sent = <<>>
  /\ res = NoRes
  /\ chk = NoChk
  /\ grp = NoGrp
  /\ err = NoErr
  /\ SideIdle
  /\ inflight \in [Msgs -> [text : AsyncTexts, channel : ChannelIds, hang : Hangs,
                            pc : {"tag"}]]

\* The tag lookup of getRegExp returns: the expression matches, execute is
\* called and awaits the user's permission.
AwaitTag(m) ==
  /\ inflight[m].pc = "tag"
  /\ resumable(m, inflight)
  /\ inflight' = [inflight EXCEPT ![m].pc = "role"]
  /\ UNCHANGED <<subscribers, channels, last, matched, ran, sent, res, chk, grp, err, side>>

\* The permission lookup returns: the callback runs to its end.
AwaitRole(m) ==
  /\ inflight[m].pc = "role"
  /\ resumable(m, inflight)
  /\ LET file == taskEffect(inflight[m], [subs |-> subscribers, chans |-> channels])
     IN  subscribers' = file.subs /\ channels' = file.chans
  /\ inflight' = [inflight EXCEPT ![m].pc = "done"]
  /\ UNCHANGED <<last, matched, ran, sent, res, chk, grp, err, side>>

NextAsync == \E m \in Msgs : AwaitTag(m) \/ AwaitRole(m)

SpecAsync ==
  /\ InitAsync
  /\ [][NextAsync]_vars
  /\ \A m \in Msgs : WF_vars(AwaitTag(m) \/ AwaitRole(m))

(***************************************************************************)
(* Properties.                                                             *)
(***************************************************************************)
Range(seq) == {seq[i] : i \in 1..Len(seq)}

\* The permission the command labelled label requires.
Permission(label) ==
  commands[CHOOSE k \in 1..Len(commands) : commands[k].label = label].permission

\* The indices of the messages of kind kind sent by the command label.
SentBy(msgs, label, kind) ==
  {i \in 1..Len(msgs) : msgs[i].by = label /\ msgs[i].kind = kind}

\* C1: an inbound message invokes the callback of at most one command.
C1_AtMostOneHandler == Len(ran) <= 1

C3_UserChangesNothing ==
  [][last'.role = "USER" =>
       /\ subscribers' = subscribers
       /\ channels' = channels
       /\ SentBy(sent', "NotifyAll", "toAllSubs") = {}]_vars

\* C4: both role checks, the one that guards execution and the one that
\* filters the help text, accept the role actual for the requirement
\* required exactly when actual is at least required in USER < ADMIN < OWNER.
C4_RoleOrder ==
  chk.st = "done" =>
    /\ chk.exec <=> RoleOrd[chk.actual] >= RoleOrd[chk.required]
    /\ chk.help <=> RoleOrd[chk.actual] >= RoleOrd[chk.required]

\* An OWNER passes both checks of an ADMIN command.
C4_Witness ==
  /\ chk.st = "done"
  /\ chk.actual = "OWNER"
  /\ chk.required = "ADMIN"
  /\ chk.exec
  /\ chk.help

\* C5: of the commands that match a message only the one declared first is
\* selected: no later one runs or replies.
C5_FirstMatchOnly ==
  \A i \in 2..Len(matched) :
    /\ matched[i] \notin Range(ran)
    /\ \A j \in 1..Len(sent) : sent[j].by # matched[i]

\* C6: a user whose id is in the configured owner list resolves to OWNER,
\* whatever the chat's metadata and administrator list say and whether or
\* not those lookups succeed.
C6_OwnerIsOwner ==
  (/\ res.st = "done"
   /\ res.uid \in UserIds
   /\ res.env.ownersOK
   /\ res.uid \in res.env.owners) => res.role = "OWNER"

\* An owner the chat reports as a non-administrator.
C6_Witness ==
  /\ res.st = "done"
  /\ res.uid \in UserIds
  /\ res.env.ownersOK
  /\ res.uid \in res.env.owners
  /\ res.env.chatOK
  /\ ~res.env.allAdmins
  /\ ~res.env.private
  /\ res.env.adminsOK
  /\ res.uid \notin res.env.admins
  /\ res.role = "OWNER"

\* C7 as stated: in a channel whose metadata says that all members are
\* administrators, the resolution returns ADMIN.
C7_AllAdminsIsAdmin ==
  (res.st = "done" /\ res.env.chatOK /\ res.env.allAdmins) => res.role = "ADMIN"

\* C7: in a channel whose metadata says that all members are
\* administrators, a user who is not in the owner list (the list having
\* been read) resolves to ADMIN, whether the administrator-list lookup
\* succeeds, fails or leaves the user out.
C7_AllAdminsNonOwner ==
  (/\ res.st = "done"
   /\ res.env.ownersOK
   /\ res.uid \notin res.env.owners
   /\ res.env.chatOK
   /\ res.env.allAdmins) => res.role = "ADMIN"

\* A non-owner in such a channel whose administrator lookup fails.
C7_Witness ==
  /\ res.st = "done"
  /\ res.uid \in UserIds
  /\ res.env.ownersOK
  /\ res.uid \notin res.env.owners
  /\ res.env.chatOK
  /\ res.env.allAdmins
  /\ ~res.env.private
  /\ ~res.env.adminsOK
  /\ res.role = "ADMIN"

\* The highest role the answers that are available grant the id.
Granted(uid, e) ==
  IF e.ownersOK /\ uid \in e.owners THEN "OWNER"
  ELSE IF \/ uid = channelAuthorID
          \/ e.chatOK /\ (e.allAdmins \/ e.private)
          \/ e.adminsOK /\ uid \in e.admins
       THEN "ADMIN"
       ELSE "USER"

\* C8: the resolution always returns a role, whichever of its calls fail,
\* and never a role above the one the calls that succeed grant.
C8_NeverThrowsNeverRaises ==
  res.st = "done" =>
    /\ res.role \in Roles
    /\ RoleOrd[res.role] <= RoleOrd[Granted(res.uid, res.env)]

\* The chat lookup fails for a listed administrator: USER.
C8_Witness ==
  /\ res.st = "done"
  /\ res.uid \in UserIds
  /\ res.env.ownersOK
  /\ res.uid \notin res.env.owners
  /\ ~res.env.chatOK
  /\ res.env.adminsOK
  /\ res.uid \in res.env.admins
  /\ res.role = "USER"

\* C9: a channel post is handled as the placeholder id, whose role is
\* exactly ADMIN whatever the owner and administrator lists hold: its
\* matching USER and ADMIN commands run, its OWNER commands never do.
C9_ChannelPostIsAdmin ==
  (last.client = "telegram" /\ last.post) =>
    /\ last.role = "ADMIN"
    /\ \A label \in Range(matched) :
         label \in Range(ran) <=> Permission(label) \in {"USER", "ADMIN"}

\* A channel post asks for NotifyAll and is denied.
C9_Witness ==
  /\ last.client = "telegram"
  /\ last.post
  /\ last.role = "ADMIN"
  /\ "NotifyAll" \in Range(matched)
  /\ "NotifyAll" \notin Range(ran)
  /\ SentBy(sent, "NotifyAll", "denied") # {}

\* No channel is twice in the subscriber list of a game.
NoDuplicates ==
  \A c \in Clients, g \in GameNames :
    \A i, j \in 1..Len(subscribers[c][g]) :
      i # j => subscribers[c][g][i] # subscribers[c][g][j]

\* A Subscribe callback for an alias of a game replies once about the game:
\* "subscribed" when the channel was not in the game's list, "already" when
\* it was; the channel is in the list afterwards.
SubscribeReports ==
  \A k \in 1..Len(games) :
    LET c == last'.client
        ch == last'.channel
        g == games[k].name
        before == ch \in Range(subscribers[c][g])
        about == {i \in 1..Len(sent') : sent'[i].by = "Subscribe" /\ sent'[i].arg = g}
    IN  (/\ "Subscribe" \in Range(ran')
         /\ Len(last'.text) > 0
         /\ hasAlias(games[k], <<last'.text[Len(last'.text)]>>))
        => /\ Cardinality(about) = 1
           /\ \A i \in about :
                sent'[i].kind = IF before THEN "already" ELSE "subscribed"
           /\ ch \in Range(subscribers'[c][g])

\* A channel leaves a game's list only by its own Unsubscribe.
OnlyUnsubscribeRemoves ==
  \A c \in Clients, g \in GameNames, ch \in ChannelIds :
    (ch \in Range(subscribers[c][g]) /\ ch \notin Range(subscribers'[c][g]))
    => /\ "Unsubscribe" \in Range(ran')
       /\ last'.client = c
       /\ last'.channel = ch

\* C10: subscribing a channel that is not subscribed to the game reports it
\* newly subscribed, subscribing one that is reports it already subscribed,
\* the channel stays subscribed until it unsubscribes, and no list ever
\* holds a channel twice.
C10_Subscribe ==
  /\ []NoDuplicates
  /\ [][SubscribeReports]_vars
  /\ [][OnlyUnsubscribeRemoves]_vars

\* A subscribed channel subscribes again.
C10_Witness ==
  /\ "Subscribe" \in Range(ran)
  /\ last.client \in Clients
  /\ last.channel \in Range(subscribers[last.client]["dota"])
  /\ \E i \in 1..Len(sent) : sent[i] = Reply("Subscribe", "already", "dota")

\* An Unsubscribe callback for an alias of a game the channel is not
\* subscribed to replies once about the game, "never subscribed", and the
\* persisted data is what it was.
UnsubscribeNeverSubscribed ==
  \A k \in 1..Len(games) :
    LET c == last'.client
        ch == last'.channel
        g == games[k].name
        about == {i \in 1..Len(sent') : sent'[i].by = "Unsubscribe" /\ sent'[i].arg = g}
    IN  (/\ "Unsubscribe" \in Range(ran')
         /\ Len(last'.text) > 0
         /\ hasAlias(games[k], <<last'.text[Len(last'.text)]>>)
         /\ ch \notin Range(subscribers[c][g]))
        => /\ Cardinality(about) = 1
           /\ \A i \in about : sent'[i].kind = "never"
           /\ subscribers' = subscribers
           /\ channels' = channels

\* C11: unsubscribing a channel from a game it is not subscribed to reports
\* "never subscribed" and leaves the persisted subscriber data exactly as it
\* was: nothing is written, no entry is removed.
C11_UnsubscribeNever == [][UnsubscribeNeverSubscribed]_vars

\* A channel that is not subscribed unsubscribes while another channel is
\* subscribed to the game.
C11_Witness ==
  /\ "Unsubscribe" \in Range(ran)
  /\ last.client \in Clients
  /\ \E i \in 1..Len(sent) : sent[i] = Reply("Unsubscribe", "never", "dota")
  /\ Len(subscribers[last.client]["dota"]) > 0
  /\ last.channel \notin Range(subscribers[last.client]["dota"])

\* The records the persisted data holds for the channel.
RecordsOf(client, ch) ==
  {i \in 1..Len(channels[client]) : channels[client][i].id = ch}

\* C12: after "prefix reset" has run on a channel, the channel's prefix is
\* the bot's default, and a channel without game subscriptions has no
\* persisted record, whether or not it had one before.
C12_ResetPrunes ==
  (/\ last.client = "telegram"
   /\ "Prefix" \in Range(ran)
   /\ last.text = <<"@bot", " ", "prefix", " ", "reset">>)
  => /\ getPrefix(channels, last.client, last.channel) = BotPrefix[last.client]
     /\ \A i \in RecordsOf(last.client, last.channel) :
          Len(channels[last.client][i].gameSubs) > 0

\* C13: the persisted data holds a record for a channel only if the channel
\* has a game subscription or a prefix other than the bot's default.
C13_NoNeedlessRecord ==
  \A c \in Clients : \A i \in 1..Len(channels[c]) :
    \/ Len(channels[c][i].gameSubs) > 0
    \/ channels[c][i].prefix \notin {<<>>, BotPrefix[c]}

\* The labels of the commands a role may execute, in the order of
\* declaration.
Allowed(role) ==
  LET kept == SelectSeq(commands,
                LAMBDA c : RoleOrd[role] >= RoleOrd[c.permission])
  IN  [i \in 1..Len(kept) |-> kept[i].label]

\* C14: the help generated for a caller of a role lists exactly the
\* commands whose permission the role satisfies, in declaration order, in
\* the Help callback as in the group's help function.
C14_HelpListsAllowed ==
  chk.st = "done" =>
    /\ chk.list = Allowed(chk.actual)
    /\ chk.groupList = Allowed(chk.actual)

StartsWith(text, start) ==
  Len(text) >= Len(start) /\ SubSeq(text, 1, Len(start)) = start

Drop(text, n) == SubSeq(text, n + 1, Len(text))

\* What follows the address at the start of a text: the tag, the channel
\* prefix with or without the tag, or the bot's prefix and the tag.  The
\* text is addressed to the bot when there is such a start.
AfterAddress(text, botPrefix, channelPrefix) ==
  LET t == TrimLeft(text)
      afterChannel == TrimLeft(Drop(t, Len(channelPrefix)))
      afterBot == TrimLeft(Drop(t, Len(botPrefix)))
  IN  IF StartsWith(t, UserTag) THEN <<Drop(t, Len(UserTag))>>
      ELSE IF StartsWith(t, channelPrefix)
      THEN IF StartsWith(afterChannel, UserTag)
           THEN <<Drop(afterChannel, Len(UserTag))>>
           ELSE <<afterChannel>>
      ELSE IF StartsWith(t, botPrefix) /\ StartsWith(afterBot, UserTag)
      THEN <<Drop(afterBot, Len(UserTag))>>
      ELSE <<>>

\* The remainder of an addressed text: without the surrounding whitespace
\* and without a trailing tag.
Remainder(body) ==
  LET b == Trim(body)
  IN  IF Len(b) >= Len(UserTag) /\ SubSeq(b, Len(b) - Len(UserTag) + 1, Len(b)) = UserTag
      THEN TrimRight(SubSeq(b, 1, Len(b) - Len(UserTag)))
      ELSE b

\* C15: a message that is addressed to the bot and whose remainder matches
\* no command of the group invokes the default action exactly once, with
\* the remainder, and no command; a message that is not addressed invokes
\* neither a command nor the default action.
C15_DefaultAction ==
  grp.st = "done" =>
    LET after == AfterAddress(grp.text, BotPrefix["telegram"], grp.channelPrefix)
    IN  IF Len(after) = 0
        THEN grp.ran = <<>> /\ grp.denied = <<>> /\ grp.defaults = <<>>
        ELSE (\A k \in 1..Len(groupCommands) :
                 ~Exec(groupCommands[k].trigger, Remainder(after[1])).matched)
             => /\ grp.defaults = <<Remainder(after[1])>>
                /\ grp.ran = <<>>
                /\ grp.denied = <<>>

\* "/foo @bot": the default action is given "foo".
C15_Witness ==
  /\ grp.st = "done"
  /\ grp.text = <<"/", "foo", " ", "@bot">>
  /\ grp.defaults = << <<"foo">> >>
  /\ grp.ran = <<>>

\* C16: a callback that fails, by throwing or by the rejection of the
\* promise it returned, is caught and logged by the listener: nothing is
\* thrown out of the listener and no rejection is left unhandled.
C16_FailureIsLogged ==
  err.st = "done" =>
    /\ ~err.thrown
    /\ ~err.unhandled
    /\ (err.fails # "none" /\ (err.client = "discord" \/
          RoleOrd[err.role] >= RoleOrd[commands[err.k].permission])) => err.logged

\* C17: subscribing with an alias that no game has raises no error, leaves
\* the persisted data unchanged and is answered with a reply that says the
\* alias is unknown; the title lookup of that alias yields the empty title.
C17_UnknownAlias ==
  (/\ "Subscribe" \in Range(ran)
   /\ last.text = <<"/", "sub", "scribe", " ", "info">>)
  => /\ \E i \in 1..Len(sent) : sent[i].by = "Subscribe" /\ sent[i].kind = "unknown"
     /\ getGameTitle(<<"info">>) = ""

\* C19: when the lookup of the chat's metadata fails, the resolution still
\* asks for the chat's administrators: a user in that list is ADMIN.
C19_ChatFailureFallsThrough ==
  (/\ res.st = "done"
   /\ res.uid \in UserIds
   /\ res.env.ownersOK
   /\ res.uid \notin res.env.owners
   /\ ~res.env.chatOK
   /\ res.env.adminsOK
   /\ res.uid \in res.env.admins) => res.role = "ADMIN"

\* The messages in flight whose callback has run.
Completed == {m \in Msgs : inflight[m].pc = "done"}

\* The label of the command of message m.
LabelOf(m) == commands[taskCommand(inflight[m].text)].label

\* The games a subscribe message m names.
GamesOf(m) == asyncGames[inflight[m].text]

\* The file holds what message m did, unless a message that has run undoes
\* it: the channel is in the list of every game a subscribe named, out of
\* the list of the game an unsubscribe named, and has the prefix a prefix
\* change set.
Reflected(m) ==
  LET ch == inflight[m].channel
      others == {o \in Completed : inflight[o].channel = ch}
  IN  CASE LabelOf(m) = "Subscribe" ->
             (\A o \in others : LabelOf(o) # "Unsubscribe")
             => \A i \in 1..Len(GamesOf(m)) :
                  ch \in Range(subscribers["telegram"][GamesOf(m)[i].name])
        [] LabelOf(m) = "Unsubscribe" ->
             (\A o \in others : LabelOf(o) # "Subscribe")
             => ch \notin Range(subscribers["telegram"]["dota"])
        [] LabelOf(m) = "Prefix" ->
             getPrefix(channels, "telegram", ch) = <<"!">>
        [] OTHER -> TRUE

\* C18: no update is lost when handlers overlap: the subscribers file is
\* always what the callbacks that have run leave when they run one after
\* the other, in some order, on the file the messages found.
C18_NoLostUpdate ==
  LET file == [subs |-> subscribers, chans |-> channels]
  IN  /\ \/ Completed = {} /\ file = StoreAtArrival
         \/ \E a \in Msgs :
              Completed = {a} /\ file = taskEffect(inflight[a], StoreAtArrival)
         \/ \E a, b \in Msgs :
              /\ a # b
              /\ Completed = {a, b}
              /\ file = taskEffect(inflight[b], taskEffect(inflight[a], StoreAtArrival))
      /\ \A m \in Completed : Reflected(m)

\* A subscribe of channel 2 and a prefix change have both run, overlapping:
\* the file holds both.
C18_Witness ==
  /\ Completed = Msgs
  /\ \E m \in Msgs :
       /\ inflight[m].text = <<"/", "sub", "scribe", " ", "dota", ", ", "artifact">>
       /\ inflight[m].channel = 2
  /\ \E m \in Msgs : inflight[m].text = <<"/", "prefix", " ", "!">>
  /\ 2 \in Range(subscribers["telegram"]["dota"])
  /\ 2 \in Range(subscribers["telegram"]["artifact"])
  /\ Len(channels["telegram"]) = 1

\* C20: a platform call that never returns for one message stalls only
\* that message: every message whose tag and permission lookups return is
\* eventually handled, whatever hangs for the others.
C20_OthersProceed ==
  \A m \in Msgs :
    (inflight[m].pc = "tag" /\ inflight[m].hang \notin {"tag", "role"})
      ~> (inflight[m].pc = "done")

\* The first message hangs in its tag lookup and the second is handled.
C20_Witness ==
  /\ inflight["m1"].hang = "tag"
  /\ inflight["m1"].pc = "tag"
  /\ inflight["m2"].pc = "done"

\* The message of the step is handled with the prefix its channel has when
\* it arrives: it matches a command exactly when it is addressed with that
\* prefix, with the tag, or with the bot's prefix and the tag; a prefix
\* command sets the prefix it names; no other channel's prefix changes.
PrefixFollowed ==
  LET m == last'
      q == getPrefix(channels, m.client, m.channel)
  IN  /\ (matched' # <<>>) <=> (AfterAddress(m.text, BotPrefix[m.client], q) # <<>>)
      /\ "Prefix" \in Range(ran')
           => getPrefix(channels', m.client, m.channel) = <<m.text[Len(m.text)]>>
      /\ \A c \in Clients, ch \in ChannelIds :
           <<c, ch>> # <<m.client, m.channel>>
             => getPrefix(channels', c, ch) = getPrefix(channels, c, ch)

\* C21: after a prefix command changes a channel's prefix from p to q,
\* every later message on that channel is matched against q: commands
\* behind q match, commands behind p no longer do (unless addressed through
\* the tag or the bot's prefix and the tag), and the prefixes of other
\* channels are unaffected.
C21_PrefixFollowed == [][PrefixFollowed]_vars

\* The same on Telegram alone.
C21_PrefixFollowedTelegram == [][last'.client = "telegram" => PrefixFollowed]_vars

\* C22: when a bot with autostart has no token, start() reports false, the
\* bot is never marked running, and the startup logs the 'did not start'
\* warning for it, not the 'started' message, and goes on to the other
\* bots and the updater.
C22_NoTokenWarns ==
  \A k \in 1..Len(boot.bots) :
    (k < boot.i /\ boot.bots[k].autostart /\ ~boot.bots[k].token)
      => /\ ~botStart(BotOrder[k], boot.bots[k]).result
         /\ BotOrder[k] \notin boot.running
         /\ [bot |-> BotOrder[k], line |-> "didNotStart"] \in Range(boot.log)
         /\ [bot |-> BotOrder[k], line |-> "started"] \notin Range(boot.log)

\* C23: when the platform fails to deliver a message, the adapter's send
\* neither throws nor rejects and returns false; it returns true only when
\* the message was handed to the platform successfully.
C23_SendReportsDelivery ==
  (call.st = "done" /\ call.fn = "sendMessage") =>
    /\ ~call.out.thrown
    /\ ~call.out.rejected
    /\ call.out.returned => call.out.handed
    /\ ~call.args.delivers => ~call.out.returned

\* The words a command is called by, and whether parameters follow.
TriggerWords ==
  [Help |-> {<<"help">>}, help |-> {<<"help">>},
   About |-> {<<"about">>, <<"info">>}, about |-> {<<"about">>, <<"info">>},
   settings |-> {<<"settings">>, <<"options">>, <<"config">>},
   Games |-> {<<"games">>},
   Subscribe |-> {<<"sub">>, <<"sub", "scribe">>},
   subscribe |-> {<<"sub">>, <<"sub", "scribe">>},
   Unsubscribe |-> {<<"un", "sub">>, <<"un", "sub", "scribe">>},
   unsubscribe |-> {<<"un", "sub">>, <<"un", "sub", "scribe">>},
   Prefix |-> {<<"prefix">>}, prefix |-> {<<"prefix">>},
   NotifyAll |-> {<<"notifyAll">>, <<"notifyAll", "Subs">>},
   notifyAll |-> {<<"notifyAll">>, <<"notifyAll", "Subs">>}]

TakesParameters ==
  {"Subscribe", "subscribe", "Unsubscribe", "unsubscribe", "Prefix", "prefix",
   "NotifyAll", "notifyAll"}

\* The whole remainder is the command: one of its words, alone or, for a
\* command with parameters, at the start.
IsCommand(label, rest) ==
  \E w \in TriggerWords[label] :
    IF label \in TakesParameters THEN StartsWith(TrimLeft(rest), w) ELSE Trim(rest) = w

\* The label of the command of the call.
CalledLabel ==
  IF call.list = "commands" THEN commands[call.k].label ELSE groupCommands[call.k].label

\* C24: a command matches only when the whole remainder of the message
\* after the address clause is that command's trigger with its parameters:
\* a remainder that begins with, ends with or contains another command's
\* trigger word ('unsubscribe config', 'subscribe info') does not match
\* that other command.
C24_WholeRemainder ==
  (call.st = "done" /\ call.fn = "exec" /\ call.out) => IsCommand(CalledLabel, call.rest)

\* C25: every literal component of the address clause (the channel prefix,
\* the bot's default prefix, the tag) is matched literally: for any prefix,
\* also one made of regex metacharacters, the clause matches a message
\* only if the message begins with exactly that prefix or tag.
C25_LiteralPrefix ==
  (call.st = "done" /\ call.fn = "clause" /\ call.out)
    => AfterAddress(call.text, call.botPrefix, call.channelPrefix) # <<>>

\* The same for the channel prefix and the tag alone: the bot's prefix is
\* no metacharacter.
C25_LiteralChannelPrefix ==
  (call.st = "done" /\ call.fn = "clause" /\ call.botPrefix # <<".">>)
    => (call.out <=> AfterAddress(call.text, call.botPrefix, call.channelPrefix) # <<>>)

\* The text is the channel prefix followed by the command of the call, and
\* nothing else.
PrefixedCommand ==
  /\ StartsWith(TrimLeft(call.text), call.channelPrefix)
  /\ IsCommand(commands[call.k].label,
               Drop(TrimLeft(call.text), Len(call.channelPrefix)))

\* C26: when the bot's tag cannot be retrieved, the dispatch of the message
\* still completes without error, messages that begin with the channel
\* prefix still match their commands, and no message is matched through a
\* tag alternative.
C26_PrefixOnlyWithoutTag ==
  (call.st = "done" /\ call.fn = "tag" /\ ~call.getMeOK)
    => /\ ~call.out.thrown
       /\ call.out.matched <=> PrefixedCommand

\* The same without the last part: no error, and the prefixed commands match.
C26_PrefixStillMatches ==
  (call.st = "done" /\ call.fn = "tag" /\ ~call.getMeOK)
    => /\ ~call.out.thrown
       /\ PrefixedCommand => call.out.matched
       /\ call.out.matched => ~StartsWith(call.text, UserTag)

\* A subscribe or unsubscribe handler was called with no game name.
NoGameName ==
  /\ call.st = "done"
  /\ call.fn \in {"subCmd", "unsubCmd", "Subscribe", "Unsubscribe"}
  /\ Trim(call.alias) = <<>>

\* C27: a subscribe or unsubscribe command given with no game name sends
\* exactly one reply, the usage hint, and changes nothing in the persisted
\* subscriber data.
C27_NoGameOneReply ==
  NoGameName => call.out.replies = <<"usage">> /\ call.out.file = call.file

\* The same for the callbacks of the Subscribe and Unsubscribe commands
\* alone, and the unchanged data for all four.
C27_NoGameCallbacks ==
  NoGameName => /\ call.out.file = call.file
                /\ call.fn \in {"Subscribe", "Unsubscribe"}
                     => call.out.replies = <<"usage">>

\* addSubscriber was called for a channel that was not subscribed to the
\* game, and then removeSubscriber for the same channel and game.
AddedThenRemoved ==
  /\ call.st = "done"
  /\ call.fn = "store"
  /\ Len(call.steps) = 2
  /\ call.steps[1].fn = "addSubscriber"
  /\ call.steps[2].fn = "removeSubscriber"
  /\ call.channel \notin Range(call.steps[1].before[call.client][call.game])

\* C28: for a channel that is not subscribed to a game, addSubscriber
\* followed by removeSubscriber for the same channel and game both return
\* true and restore the persisted data to exactly its prior content, the
\* order of the other subscribers unchanged.
C28_AddRemoveRestores ==
  AddedThenRemoved =>
    /\ call.steps[1].ok
    /\ call.steps[2].ok
    /\ call.steps[2].after = call.steps[1].before

\* Channel 2 was added to a list of two others and removed again.
C28_Witness ==
  /\ AddedThenRemoved
  /\ call.channel = 2
  /\ call.steps[1].before[call.client][call.game] = <<1, 3>>
  /\ call.steps[1].after[call.client][call.game] = <<1, 3, 2>>
  /\ call.subs[call.client][call.game] = <<1, 3>>

\* C29: addSubscriber and removeSubscriber called on one client for one
\* game change only that client's list for that game: the lists of every
\* other client and of every other game are unchanged, whether the call
\* returns true or false.
C29_OnlyOwnList ==
  (call.st = "done" /\ call.fn = "store") =>
    \A i \in 1..Len(call.steps) :
      \A c \in Clients, g \in GameNames :
        <<c, g>> # <<call.client, call.game>>
          => call.steps[i].after[c][g] = call.steps[i].before[c][g]

\* A call that returned true and one that returned false, on a file whose
\* other lists are not empty.
C29_Witness ==
  /\ call.st = "done"
  /\ call.fn = "store"
  /\ Len(call.steps) = 2
  /\ call.steps[1].ok
  /\ ~call.steps[2].ok
  /\ call.steps[1].after # call.steps[1].before
  /\ \A c \in Clients, g \in GameNames :
       <<c, g>> # <<call.client, call.game>> => call.subs[c][g] = <<3, 2>>

\* The provider can be used: it is initialized and enabled.
RedditEnabled == provider.isInit /\ provider.isEnabled

\* An init() after the first one changes nothing; the first one enables the
\* provider only for a configuration that enables it and is complete.
InitOnce ==
  provider'.op.fn = "init" =>
    /\ provider.isInit =>
         /\ provider'.isInit = provider.isInit
         /\ provider'.isEnabled = provider.isEnabled
         /\ provider'.reddit = provider.reddit
    /\ (~provider.isInit /\ provider'.isInit /\ provider'.isEnabled)
         <=> /\ ~provider.isInit
             /\ provider'.op.cfg.enabled
             /\ provider'.op.cfg.clientId
             /\ provider'.op.cfg.clientSecret
             /\ provider'.op.cfg.refreshToken
             /\ provider'.op.cfg.userName

\* getNotifications made remote calls only with a client, and without one
\* it returned the empty list.
ClientOnlyWhenCreated ==
  /\ RedditEnabled <=> provider.reddit
  /\ provider.op.fn = "getNotifications" =>
       /\ provider.op.usedClient => provider.reddit
       /\ ~provider.reddit => provider.op.remote = 0 /\ provider.op.result = 0

\* C30: the Reddit provider's initialization is one-shot: after the first
\* init() every later init() changes nothing, the provider is enabled only
\* if the configuration enables it and all of clientId, clientSecret,
\* refreshToken and userName are present, and in every reachable state
\* getNotifications uses the client only when it has been created and
\* otherwise returns an empty list without any remote call.
C30_RedditInitOnce == [][InitOnce]_vars /\ []ClientOnlyWhenCreated

\* The provider was initialized and enabled, init was called again with a
\* configuration that disables it, and it is still enabled with its client.
C30_Witness ==
  /\ provider.op.fn = "init"
  /\ ~provider.op.cfg.enabled
  /\ provider.ops >= 2
  /\ RedditEnabled
  /\ provider.reddit
=============================================================================
